---- MODULE Spec2Model ----
(***************************************************************************)
(* Nortek DVL driver: the Reader thread of src/Sensors/NortekDVL/Reader.hpp *)
(* (text handshake, binary frame decoder with resynchronisation) together   *)
(* with the foreground calls reconfigure() and stopAndJoin(), and the       *)
(* handlers of src/Sensors/NortekDVL/Task.cpp that consume the frames.      *)
(*                                                                          *)
(* Bytes are integers 0..255 and every buffer is a sequence of bytes.  C++  *)
(* offsets are 0-based; byte k of a C++ buffer b is b[k + 1] here.          *)
(*                                                                          *)
(* Granularity.  auth(), conf() and reconfigure() run under m_closed_mutex. *)
(* The binary branch of read() takes no lock: every read and every write of *)
(* m_state it performs is a step of its own, so a reconfigure() can fall    *)
(* between any two of them.  Statements that touch only data private to the *)
(* reader thread (m_buffer, pos, m_cache, m_cached, m_line) are merged into *)
(* the step of the shared access that follows them.                         *)
(***************************************************************************)
EXTENDS Integers, Sequences, FiniteSets, TLC

VARIABLES
  m_state,        \* Reader::m_state (shared)
  m_conf_line,    \* Reader::m_conf_line
  m_param,        \* Reader::m_param
  m_line,         \* Reader::m_line
  m_cache,        \* Reader::m_cache[0 .. m_cached)
  m_buffer,       \* Reader::m_buffer[0 .. rv) of the read being processed
  pos,            \* local pos of Reader::read (0-based)
  i,              \* local i of Reader::read (0-based)
  pc,             \* position of the reader thread
  m_closed_mutex, \* "free", "reader" or "caller"
  fg,             \* position of the foreground thread inside reconfigure()
  arg,            \* argument of the reconfigure() call in progress
  stopping,       \* Thread::isStopping()
  wire,           \* bytes the handle has received and read() has not taken
  written,        \* strings written to the handle, in order
  frames,         \* DevDataBinary values dispatched, in order
  events,         \* IoEvent errors dispatched, in order
  input,          \* what the device sends on this run (fixed at Init)
  nreconf,        \* reconfigure() calls made so far
  prior,          \* m_state found by the last reconfigure() when it set MSTA_CONF
  m_dcm,          \* Task::m_dcm, the nine entries in row order
  sink,           \* messages dispatched by the Task's frame handlers, in order
  consumed,       \* DevDataBinary values the Task has consumed so far
  tpc,            \* position of the Task inside onResourceInitialization()
  ok,             \* local ok of Task::onResourceInitialization
  entity_state,   \* the entity state of the Task
  thrown,         \* what() of the exception that left onResourceInitialization
  stale           \* leading bytes of m_cache cached before the last reconfigure()

\* The variables of Task::onResourceInitialization.
initvars == <<tpc, ok, entity_state, thrown>>

\* The variables of the Task's handlers.
taskvars == <<m_dcm, sink, consumed, initvars>>

vars == <<m_state, m_conf_line, m_param, m_line, m_cache, m_buffer, pos, i, pc,
          m_closed_mutex, fg, arg, stopping, wire, written, frames, events,
          input, nreconf, prior, m_dcm, sink, consumed,
          tpc, ok, entity_state, thrown, stale>>

----------------------------------------------------------------------------
(* Bounds of the model *)

\* Longest payload of the frames the device sends.
MaxPayload == 3
\* Longest read the handle returns in one call.
MaxRead == 14
\* Number of reconfigure() calls on one run.
MaxReconfigure == 1
\* Number of frames dispatched to the Task on one run of its handlers.
MaxFrames == 2

----------------------------------------------------------------------------
(* Program constants *)

MSTA_INIT == 0
MSTA_CONF == 1
MSTA_ERROR == 2
MSTA_SEEK_HDR == 3
MSTA_SEEK_CACHED_HDR == 4
MSTA_CACHE_HDR == 5
MSTA_CACHE_DATA == 6
HDR_SIZE == 10
c_read_buffer_size == 4096
\* 0xA5, the sync byte
SYNC == 165
\* 0xB58C, the checksum seed
CHECKSUM_SEED == 46476

c_control_seq == "K1W%!Q\r\n"

\* The text the handshake searches for, as bytes.
STR_USERNAME == <<85, 115, 101, 114, 110, 97, 109, 101, 58, 32>>
STR_PASSWORD == <<80, 97, 115, 115, 119, 111, 114, 100, 58, 32>>
STR_COMMAND_INTERFACE ==
  <<67, 111, 109, 109, 97, 110, 100, 32, 73, 110, 116, 101, 114, 102, 97, 99, 101, 13, 10>>
STR_LOGIN_FAILED == <<76, 111, 103, 105, 110, 32, 102, 97, 105, 108, 101, 100>>
STR_OK == <<79, 75, 13, 10>>
STR_ERROR == <<69, 82, 82, 79, 82, 13, 10>>
\* '\n'
CHAR_LF == 10

BinaryStates == {MSTA_SEEK_HDR, MSTA_SEEK_CACHED_HDR, MSTA_CACHE_HDR, MSTA_CACHE_DATA}
TextStates == {MSTA_INIT, MSTA_CONF, MSTA_ERROR}

----------------------------------------------------------------------------
(* Helpers *)

Min(a, b) == IF a <= b THEN a ELSE b

\* s with its first n elements removed (std::string::erase(0, n), memmove).
Drop(s, n) == SubSeq(s, n + 1, Len(s))

\* The first n elements of s.
Take(s, n) == SubSeq(s, 1, n)

\* std::string::rfind(t) != npos: t occurs in s.
Contains(s, t) ==
  \E k \in 0..(Len(s) - Len(t)) : SubSeq(s, k + 1, k + Len(t)) = t

\* std::string::find(c): 0-based index of the first c in s, -1 for npos.
FindChar(s, c) ==
  IF \E k \in 1..Len(s) : s[k] = c
  THEN (CHOOSE k \in 1..Len(s) : s[k] = c /\ \A j \in 1..(k - 1) : s[j] # c) - 1
  ELSE -1

\* a | b << 8 of two bytes.
LE16(lo, hi) == lo + 256 * hi

\* The copy length without the limit: all the bytes left in the read.
CopyLenUnlimited(avail, limit, have) == avail

\* std::min(avail, (size_t)limit - have): the subtraction is unsigned, so when
\* have > limit it wraps to a value near 2^64, above any avail.
CopyLen(avail, limit, have) ==
  IF have > limit THEN avail ELSE Min(avail, limit - have)

\* Reader::checksum: rs after the first n 16-bit words of data.
RECURSIVE ChecksumWords(_, _)
ChecksumWords(data, n) ==
  IF n = 0 THEN CHECKSUM_SEED
  ELSE (ChecksumWords(data, n - 1) + LE16(data[2 * n - 1], data[2 * n])) % 65536

\* Reader::checksum without the leftover byte of an odd length (the bug of
\* dropping "if (len) rs += data[0] << 8").
checksumWithoutLeftover(data) == ChecksumWords(data, Len(data) \div 2)

\* Reader::checksum with rs wider than 16 bits: the sum is never reduced.
RECURSIVE checksumUnwrapped(_)
checksumUnwrapped(data) ==
  IF Len(data) = 0 THEN CHECKSUM_SEED
  ELSE IF Len(data) = 1 THEN CHECKSUM_SEED + 256 * data[1]
  ELSE LE16(data[1], data[2]) + checksumUnwrapped(SubSeq(data, 3, Len(data)))

\* Reader::checksum(data, len) with data the byte range of len bytes.
checksum(data) ==
  LET nshorts == Len(data) \div 2
      len == Len(data) - 2 * nshorts
      rs == ChecksumWords(data, nshorts)
  IN IF len # 0 THEN (rs + 256 * data[Len(data)]) % 65536 ELSE rs

\* The header check of MSTA_CACHE_HDR on the 10 cached bytes c.
HeaderValid(c) ==
  ~ (c[2] # HDR_SIZE \/ LE16(c[9], c[10]) # checksum(Take(c, HDR_SIZE - 2)))

\* datalen of MSTA_CACHE_DATA.
DataLen(c) == LE16(c[5], c[6])

\* MSTA_CACHE_DATA without the comparison of the payload checksum.
PayloadUnchecked(c) == TRUE

\* The payload check of MSTA_CACHE_DATA on the cached frame c.
PayloadValid(c) ==
  ~ (LE16(c[7], c[8]) # checksum(SubSeq(c, HDR_SIZE + 1, HDR_SIZE + DataLen(c))))

----------------------------------------------------------------------------
(* The device: what it puts on the link *)

\* One binary frame as the device builds it: sync, header length, type,
\* reserved, data length (LE), payload checksum (LE), header checksum (LE),
\* payload.  declared is the data length the header announces and sum the
\* payload checksum it carries.
DeviceHeader(type, declared, sum) ==
  LET h == <<SYNC, HDR_SIZE, type, 0, declared % 256, declared \div 256,
             sum % 256, sum \div 256>>
  IN h \o <<checksum(h) % 256, checksum(h) \div 256>>

DeviceFrame(type, payload) ==
  DeviceHeader(type, Len(payload), checksum(payload)) \o payload

\* payload with its byte at 0-based offset k replaced by v.
Corrupt(payload, k, v) == [payload EXCEPT ![k + 1] = v]

\* n copies of the byte b.
Fill(n, b) == [k \in 1..n |-> b]

\* Frame type of a bottom-track record.
TYPE_BT == 27
\* Frame type of an average record.
TYPE_AVG == 22
\* A frame type the driver does not know.
UnknownType == 200

PayloadBytes == {1, SYNC}
Payloads == UNION {[1..n -> PayloadBytes] : n \in 0..MaxPayload}
CorruptBytes == {0, 1, 2, SYNC, 255}
\* n bytes of noise: a byte that is neither the sync byte nor part of any
\* prompt.
Noise(n) == [k \in 1..n |-> 7]

\* One valid frame, possibly after a byte of noise.
SingleInputs ==
  {[kind |-> "single", bursts |-> <<junk \o DeviceFrame(TYPE_BT, p)>>,
    stream |-> <<>>,
    first |-> DeviceFrame(TYPE_BT, p), second |-> <<>>, kept |-> 0] :
     junk \in {Noise(0), Noise(1)}, p \in Payloads}

\* A frame with one payload byte changed on the link, then a valid frame.
CorruptInputs ==
  {[kind |-> "corrupt",
    bursts |-> <<DeviceHeader(TYPE_BT, Len(x[1]), checksum(x[1]))
                   \o Corrupt(x[1], x[2], x[3]) \o DeviceFrame(TYPE_BT, <<2>>)>>,
    stream |-> <<>>,
    first |-> DeviceHeader(TYPE_BT, Len(x[1]), checksum(x[1]))
                \o Corrupt(x[1], x[2], x[3]),
    second |-> DeviceFrame(TYPE_BT, <<2>>), kept |-> 0] :
     x \in {y \in Payloads \X (0..(MaxPayload - 1)) \X CorruptBytes :
              y[2] < Len(y[1]) /\ y[3] # y[1][y[2] + 1]}}

\* A frame whose payload lost bytes on the link, so that the bytes cached for
\* it end with the first kept bytes of the valid frame that follows it; then
\* noise.  The header announces got + kept payload bytes, got of them arrive.
LostInputs ==
  {[kind |-> "lost",
    bursts |-> <<DeviceHeader(TYPE_BT, x[1] + x[2], checksum(Fill(x[1] + x[2], 1)))
                   \o Fill(x[1], 1) \o DeviceFrame(TYPE_BT, x[3])
                   \o Noise(IF x[2] > HDR_SIZE + Len(x[3])
                            THEN x[2] - HDR_SIZE - Len(x[3]) + 1 ELSE 1)>>,
    stream |-> <<>>,
    first |-> DeviceHeader(TYPE_BT, x[1] + x[2], checksum(Fill(x[1] + x[2], 1)))
                \o Fill(x[1], 1),
    second |-> DeviceFrame(TYPE_BT, x[3]), kept |-> x[2]] :
     x \in (0..1) \X (1..(HDR_SIZE + MaxPayload))
             \X {p \in Payloads : Len(p) >= 1 /\ \A k \in 1..Len(p) : p[k] = 1}}

\* The bytes that can precede a frame so that the decoder caches them as the
\* start of a header: a sync byte, then n - 1 bytes of a header, of noise, or
\* a second sync byte and noise.
FalseStarts(n) ==
  {Take(DeviceHeader(TYPE_BT, 0, CHECKSUM_SEED), n), <<SYNC>> \o Noise(n - 1)}
  \cup (IF n >= 2 THEN {<<SYNC, SYNC>> \o Noise(n - 2)} ELSE {})

\* A false start of kept bytes and then a valid frame, so that the first 10
\* bytes cached fail the header check and hold the sync byte of the frame at
\* offset kept in 1..9.
BadHeaderInputs ==
  {[kind |-> "badhdr", bursts |-> <<x[1] \o DeviceFrame(TYPE_BT, x[2])>>,
    stream |-> <<>>,
    first |-> x[1], second |-> DeviceFrame(TYPE_BT, x[2]), kept |-> Len(x[1])] :
     x \in {y \in (UNION {FalseStarts(n) : n \in 1..(HDR_SIZE - 1)})
                     \X {<<>>, <<1>>, <<1, SYNC>>} :
              ~ HeaderValid(Take(y[1] \o DeviceFrame(TYPE_BT, y[2]), HDR_SIZE))}}

\* Two valid frames with at least one payload byte, with runs of noise before,
\* between and after them; the second is of a type other than bottom track.
StreamInputs ==
  {[kind |-> "stream",
    bursts |-> <<Noise(x[1]) \o DeviceFrame(TYPE_BT, x[4]) \o Noise(x[2])
                   \o DeviceFrame(x[6], x[5]) \o Noise(x[3])>>,
    stream |-> <<>>,
    first |-> DeviceFrame(TYPE_BT, x[4]),
    second |-> DeviceFrame(x[6], x[5]), kept |-> x[2]] :
     x \in (0..1) \X (0..1) \X (0..1) \X {<<1>>, <<SYNC, 1>>} \X {<<1>>, <<SYNC, 1>>}
             \X {TYPE_AVG, UnknownType}}

\* A valid frame with no payload, then a byte of noise or a valid frame.
EmptyFrameInputs ==
  {[kind |-> "empty", bursts |-> <<DeviceFrame(TYPE_BT, <<>>) \o t>>,
    stream |-> <<>>,
    first |-> DeviceFrame(TYPE_BT, <<>>), second |-> t, kept |-> 0] :
     t \in {Noise(1), DeviceFrame(TYPE_AVG, <<1>>)}}

DecodeInputs ==
  SingleInputs \cup CorruptInputs \cup LostInputs \cup BadHeaderInputs
    \cup StreamInputs \cup EmptyFrameInputs

\* The checksum of n bytes of value 1.
SumOfOnes(n) ==
  (CHECKSUM_SEED + (n \div 2) * LE16(1, 1) + (IF n % 2 = 1 THEN 256 ELSE 0)) % 65536

\* A valid frame of n payload bytes of value 1.
FrameOfOnes(n) == DeviceHeader(TYPE_BT, n, SumOfOnes(n)) \o Fill(n, 1)

\* A valid frame longer than the cache by 1 or 2 bytes, then a short valid
\* frame.  The first c_read_buffer_size - 1 bytes of the long frame (first)
\* have been received, the rest of it arrives with the short frame (second).
LongInputs ==
  {[kind |-> "long",
    bursts |-> <<Drop(FrameOfOnes(x[1]), c_read_buffer_size - 1)
                   \o DeviceFrame(TYPE_BT, x[2])>>,
    stream |-> <<>>,
    first |-> Take(FrameOfOnes(x[1]), c_read_buffer_size - 1),
    second |-> DeviceFrame(TYPE_BT, x[2]), kept |-> 0] :
     x \in {c_read_buffer_size - HDR_SIZE + n : n \in 1..2} \X {<<>>, <<1>>}}

----------------------------------------------------------------------------
(* Parameters and writes *)

\* NortekParam values: the defaults of the task and a changed set.
ParamDefault ==
  [username |-> "nortek", password |-> "", rate |-> 4, sndvel |-> 0,
   salinity |-> 0, bt_range |-> 30, v_range |-> 5, pwr_level |-> -20]
ParamChanged == [ParamDefault EXCEPT !.rate = 8, !.bt_range = 50]
Params == {ParamDefault, ParamChanged}

\* One m_handle->writeString: the string, or the format and its arguments.
Wr(str, args) == [str |-> str, args |-> args]

\* what() of the runtime errors thrown with a fixed text.
WHAT_INVALID_READ ==
  <<105, 110, 118, 97, 108, 105, 100, 32, 114, 101, 97, 100, 32, 115, 105, 122, 101>>
WHAT_LOGIN_FAILED == STR_LOGIN_FAILED

\* The format strings of conf().
FMT_SETDVL == "SETDVL,2,\"OFF\",\"INTSR\",%.1f,\"\",%.1f,%.1f\r\n"
FMT_SETBT == "SETBT,%.2f,%.2f,4,0,21,%.1f,\"XYZ\"\r\n"
FMT_SETCURPROF == "SETCURPROF,1,0.50,0.10,\"XYZ\",%f,0.000,%f,3,4,0\r\n"

\* The write of conf() for step n (the value of m_conf_line before ++).
ConfWrite(n, param) ==
  CASE n = 0 -> <<Wr("MC\r\n", <<>>)>>
    [] n = 1 -> <<Wr(FMT_SETDVL, <<param.rate, param.sndvel, param.salinity>>)>>
    [] n = 2 -> <<Wr(FMT_SETBT, <<param.bt_range, param.v_range, param.pwr_level>>)>>
    [] n = 3 -> <<Wr(FMT_SETCURPROF, <<param.pwr_level, param.v_range>>)>>
    [] n = 4 -> <<Wr("START\r\n", <<>>)>>
    [] OTHER -> <<>>

\* The writes of a whole handshake made with param.
HandshakeWrites(param) ==
  <<Wr(param.username, <<>>), Wr("\n", <<>>), Wr(param.password, <<>>),
    Wr("\n", <<>>), Wr(c_control_seq, <<>>)>>
  \o ConfWrite(0, param) \o ConfWrite(1, param) \o ConfWrite(2, param)
  \o ConfWrite(3, param) \o ConfWrite(4, param)

\* n times "OK\r\n".
RECURSIVE Oks(_)
Oks(n) == IF n = 0 THEN <<>> ELSE STR_OK \o Oks(n - 1)

\* "E1\r\n", the line the device sends after GETERROR.
ERROR_LINE == <<69, 49, 13, 10>>

\* The number of writes of str in ws.
Count(ws, str) == Cardinality({k \in 1..Len(ws) : ws[k].str = str})

\* The bursts the device sends in reply to the write w made after the writes
\* before.  A device of kind "ok" prompts for the password after the first line
\* it receives, opens the command interface after the second, answers every
\* command with "OK\r\n" and streams its frames after START; one of kind
\* "refused" rejects the login; one of kind "error" rejects SETBT; one of kind
\* "errline" answers GETERROR with the line dev.second.  The inputs of the
\* decoder runs and the scripted text inputs (a fixed byte stream) reply
\* nothing.
DeviceReply(dev, before, w) ==
  CASE dev.kind \notin {"ok", "refused", "error", "errline"} -> <<>>
    [] w.str = "GETERROR\r\n" /\ dev.kind = "errline" -> <<dev.second>>
    [] w.str = "\n" /\ Count(before, "\n") = 0 -> <<STR_PASSWORD>>
    [] w.str = "\n" /\ Count(before, "\n") = 1 ->
         IF dev.kind = "refused" THEN <<STR_LOGIN_FAILED>>
         ELSE <<STR_COMMAND_INTERFACE>>
    [] w.str = "GETERROR\r\n" -> <<ERROR_LINE>>
    [] w.str = "START\r\n" -> <<STR_OK>> \o dev.stream
    [] w.str = FMT_SETBT /\ dev.kind = "error" -> <<STR_ERROR>>
    [] w.str \in {c_control_seq, "MC\r\n", FMT_SETDVL, FMT_SETBT, FMT_SETCURPROF} ->
         <<STR_OK>>
    [] OTHER -> <<>>

\* The replies to the writes ws made one after the other after before.
RECURSIVE DeviceReplies(_, _, _)
DeviceReplies(dev, before, ws) ==
  IF ws = <<>> THEN <<>>
  ELSE DeviceReply(dev, before, Head(ws))
         \o DeviceReplies(dev, Append(before, Head(ws)), Tail(ws))

\* The bytes of the bursts bs, in order.
RECURSIVE Flatten(_)
Flatten(bs) == IF bs = <<>> THEN <<>> ELSE Head(bs) \o Flatten(Tail(bs))

----------------------------------------------------------------------------
(* The reader thread: Reader::run and Reader::read *)

m_cached == Len(m_cache)
rv == Len(m_buffer)

\* m_handle->writeString of each of ws in turn; the device's replies arrive.
Write(ws) ==
  /\ written' = written \o ws
  /\ wire' = wire \o DeviceReplies(input, written, ws)

\* read() returns to run(): its locals are gone.
ReturnFromRead ==
  /\ pc' = "run"
  /\ m_buffer' = <<>>
  /\ pos' = 0
  /\ i' = 0

\* run() dispatching the IoEvent without the break: the loop goes on.
ThrowToRunNoBreak(what) ==
  /\ events' = Append(events, what)
  /\ pc' = "run"
  /\ m_buffer' = <<>>
  /\ pos' = 0
  /\ i' = 0

\* A std::runtime_error leaves read(); run() dispatches one IoEvent and breaks.
ThrowToRun(what) ==
  /\ events' = Append(events, what)
  /\ pc' = "done"
  /\ m_buffer' = <<>>
  /\ pos' = 0
  /\ i' = 0

\* while (!isStopping())
RunLoop ==
  /\ pc = "run"
  /\ pc' = IF stopping THEN "done" ELSE "read"
  /\ UNCHANGED <<m_state, m_conf_line, m_param, m_line, m_cache, m_buffer, pos, i,
                 m_closed_mutex, fg, arg, stopping, wire, written, frames, events,
                 input, nreconf, prior>>
  /\ UNCHANGED <<stale, taskvars>>

\* A poll that times out emptying the line accumulator and the cache.
PollTimeoutClearing ==
  /\ pc = "read"
  /\ wire = <<>>
  /\ pc' = "run"
  /\ m_line' = <<>>
  /\ m_cache' = <<>>
  /\ UNCHANGED <<m_state, m_conf_line, m_param, m_buffer, pos, i,
                 m_closed_mutex, fg, arg, stopping, wire, written, frames, events,
                 input, nreconf, prior>>
  /\ UNCHANGED <<stale, taskvars>>

\* Poll::poll times out: nothing has arrived.
PollTimeout ==
  /\ pc = "read"
  /\ wire = <<>>
  /\ pc' = "run"
  /\ UNCHANGED <<m_state, m_conf_line, m_param, m_line, m_cache, m_buffer, pos, i,
                 m_closed_mutex, fg, arg, stopping, wire, written, frames, events,
                 input, nreconf, prior>>
  /\ UNCHANGED <<stale, taskvars>>

\* m_handle->read returns rv > 0 bytes, at most c_read_buffer_size: all of the
\* first k bursts received.
ReadBytes ==
  /\ pc = "read"
  /\ \E k \in 1..Len(wire) :
       /\ Len(Flatten(Take(wire, k))) <= c_read_buffer_size
       /\ m_buffer' = Flatten(Take(wire, k))
       /\ wire' = Drop(wire, k)
  /\ pc' = "branch"
  /\ UNCHANGED <<m_state, m_conf_line, m_param, m_line, m_cache, pos, i,
                 m_closed_mutex, fg, arg, stopping, written, frames, events,
                 input, nreconf, prior>>
  /\ UNCHANGED <<stale, taskvars>>

\* m_handle->read returns rv > 0 bytes: the first n bytes of a burst, the rest
\* of it not having arrived yet.
ReadPart ==
  /\ pc = "read"
  /\ wire # <<>>
  /\ \E n \in 1..Min(Len(Head(wire)) - 1, MaxRead) :
       /\ m_buffer' = Take(Head(wire), n)
       /\ wire' = <<Drop(Head(wire), n)>> \o Tail(wire)
  /\ pc' = "branch"
  /\ UNCHANGED <<m_state, m_conf_line, m_param, m_line, m_cache, pos, i,
                 m_closed_mutex, fg, arg, stopping, written, frames, events,
                 input, nreconf, prior>>
  /\ UNCHANGED <<stale, taskvars>>

\* read() taking a zero-length read for "no data": it returns to run().
ReadZeroNoData ==
  /\ pc = "read"
  /\ pc' = "run"
  /\ UNCHANGED <<m_state, m_conf_line, m_param, m_line, m_cache, m_buffer, pos, i,
                 m_closed_mutex, fg, arg, stopping, wire, written, frames, events,
                 input, nreconf, prior>>
  /\ UNCHANGED <<stale, taskvars>>

\* m_handle->read returns 0 (the link is closed): "invalid read size".
ReadZero ==
  /\ pc = "read"
  /\ ThrowToRun(WHAT_INVALID_READ)
  /\ UNCHANGED <<m_state, m_conf_line, m_param, m_line, m_cache,
                 m_closed_mutex, fg, arg, stopping, wire, written, frames,
                 input, nreconf, prior>>
  /\ UNCHANGED <<stale, taskvars>>

\* m_line.append(m_buffer, rv) without the trim.
AppendLineUntrimmed(line, buf) == line \o buf

\* m_line.append(m_buffer, rv) and the trim to c_read_buffer_size.
AppendLine(line, buf) ==
  LET l == line \o buf
  IN IF Len(l) > c_read_buffer_size THEN Drop(l, Len(l) - c_read_buffer_size) ELSE l

\* if (m_state < MSTA_SEEK_HDR): the text branch appends to m_line, the binary
\* branch sets pos = 0.
Branch ==
  /\ pc = "branch"
  /\ IF m_state < MSTA_SEEK_HDR
     THEN /\ m_line' = AppendLine(m_line, m_buffer)
          /\ pc' = "text"
          /\ pos' = pos
     ELSE /\ m_line' = m_line
          /\ pos' = 0
          /\ pc' = "while"
  /\ UNCHANGED <<m_state, m_conf_line, m_param, m_cache, m_buffer, i,
                 m_closed_mutex, fg, arg, stopping, wire, written, frames, events,
                 input, nreconf, prior>>
  /\ UNCHANGED <<stale, taskvars>>

\* The message of the error thrown in MSTA_ERROR: m_line.substr(0, p - 1) with
\* p the index of the first '\n'; for p = 0 the count wraps to npos.
ErrorLine(line) ==
  LET p == FindChar(line, CHAR_LF)
  IN IF p = 0 THEN line ELSE Take(line, p - 1)

\* switch (m_state) of the text branch.
TextSwitch ==
  /\ pc = "text"
  /\ CASE m_state = MSTA_INIT ->
            /\ pc' = "auth"
            /\ UNCHANGED <<m_buffer, pos, i, events>>
       [] m_state = MSTA_CONF ->
            /\ pc' = "conf"
            /\ UNCHANGED <<m_buffer, pos, i, events>>
       [] m_state = MSTA_ERROR /\ FindChar(m_line, CHAR_LF) # -1 ->
            ThrowToRun(ErrorLine(m_line))
       [] OTHER ->
            /\ ReturnFromRead
            /\ UNCHANGED events
  /\ UNCHANGED <<m_state, m_conf_line, m_param, m_line, m_cache,
                 m_closed_mutex, fg, arg, stopping, wire, written, frames,
                 input, nreconf, prior>>
  /\ UNCHANGED <<stale, taskvars>>

\* ScopedMutex m(m_closed_mutex) of auth().
AuthLock ==
  /\ pc = "auth"
  /\ m_closed_mutex = "free"
  /\ m_closed_mutex' = "reader"
  /\ pc' = "auth_locked"
  /\ UNCHANGED <<m_state, m_conf_line, m_param, m_line, m_cache, m_buffer, pos, i,
                 fg, arg, stopping, wire, written, frames, events,
                 input, nreconf, prior>>
  /\ UNCHANGED <<stale, taskvars>>

\* The body of auth(), to the release of the mutex.
Auth ==
  /\ pc = "auth_locked"
  /\ m_closed_mutex' = "free"
  /\ CASE Contains(m_line, STR_USERNAME) ->
            /\ m_line' = <<>>
            /\ Write(<<Wr(m_param.username, <<>>), Wr("\n", <<>>)>>)
            /\ ReturnFromRead
            /\ UNCHANGED <<m_state, m_conf_line, events>>
       [] Contains(m_line, STR_PASSWORD) ->
            /\ m_line' = <<>>
            /\ Write(<<Wr(m_param.password, <<>>), Wr("\n", <<>>)>>)
            /\ ReturnFromRead
            /\ UNCHANGED <<m_state, m_conf_line, events>>
       [] Contains(m_line, STR_COMMAND_INTERFACE) ->
            /\ m_line' = <<>>
            /\ m_conf_line' = 0
            /\ Write(<<Wr(c_control_seq, <<>>)>>)
            /\ m_state' = MSTA_CONF
            /\ ReturnFromRead
            /\ UNCHANGED events
       [] Contains(m_line, STR_LOGIN_FAILED) ->
            /\ ThrowToRun(WHAT_LOGIN_FAILED)
            /\ UNCHANGED <<m_state, m_conf_line, m_line, written, wire>>
       [] OTHER ->
            /\ ReturnFromRead
            /\ UNCHANGED <<m_state, m_conf_line, m_line, written, wire, events>>
  /\ UNCHANGED <<m_param, m_cache, fg, arg, stopping, frames,
                 input, nreconf, prior>>
  /\ UNCHANGED <<stale, taskvars>>

\* ScopedMutex m(m_closed_mutex) of conf().
ConfLock ==
  /\ pc = "conf"
  /\ m_closed_mutex = "free"
  /\ m_closed_mutex' = "reader"
  /\ pc' = "conf_locked"
  /\ UNCHANGED <<m_state, m_conf_line, m_param, m_line, m_cache, m_buffer, pos, i,
                 fg, arg, stopping, wire, written, frames, events,
                 input, nreconf, prior>>
  /\ UNCHANGED <<stale, taskvars>>

\* m_conf_line++ on a uint8_t.
NextConfLine(n) == (n + 1) % 256

\* conf() entering binary mode already on the "OK\r\n" that makes it write
\* START.
ConfStateOnStart(n, state) == IF n \in 0..3 THEN state ELSE MSTA_SEEK_HDR

\* The state after the switch of conf(): the default case starts binary mode.
ConfState(n, state) == IF n \in 0..4 THEN state ELSE MSTA_SEEK_HDR

\* The body of conf(), to the release of the mutex.
Conf ==
  /\ pc = "conf_locked"
  /\ m_closed_mutex' = "free"
  /\ CASE Contains(m_line, STR_OK) ->
            /\ m_line' = <<>>
            /\ m_conf_line' = NextConfLine(m_conf_line)
            /\ Write(ConfWrite(m_conf_line, m_param))
            /\ m_state' = ConfState(m_conf_line, m_state)
       [] Contains(m_line, STR_ERROR) ->
            /\ m_line' = <<>>
            /\ Write(<<Wr("GETERROR\r\n", <<>>)>>)
            /\ m_state' = MSTA_ERROR
            /\ UNCHANGED m_conf_line
       [] OTHER ->
            UNCHANGED <<m_state, m_conf_line, m_line, written, wire>>
  /\ ReturnFromRead
  /\ UNCHANGED <<m_param, m_cache, fg, arg, stopping, frames, events,
                 input, nreconf, prior>>
  /\ UNCHANGED <<stale, taskvars>>

----------------------------------------------------------------------------
(* The binary branch of Reader::read: no lock is taken *)

\* while (pos < rv)
While ==
  /\ pc = "while"
  /\ IF pos < rv
     THEN /\ pc' = "switch"
          /\ UNCHANGED <<m_buffer, pos, i>>
     ELSE ReturnFromRead
  /\ UNCHANGED <<m_state, m_conf_line, m_param, m_line, m_cache,
                 m_closed_mutex, fg, arg, stopping, wire, written, frames, events,
                 input, nreconf, prior>>
  /\ UNCHANGED <<stale, taskvars>>

\* switch (m_state): the read of m_state.  No case matches a text-mode state
\* and there is no default: the loop body does nothing.
Switch ==
  /\ pc = "switch"
  /\ pc' = CASE m_state = MSTA_SEEK_HDR -> "seek_hdr"
             [] m_state = MSTA_SEEK_CACHED_HDR -> "seek_cached_hdr"
             [] m_state = MSTA_CACHE_HDR -> "cache_hdr"
             [] m_state = MSTA_CACHE_DATA -> "cache_data"
             [] OTHER -> "while"
  /\ UNCHANGED <<m_state, m_conf_line, m_param, m_line, m_cache, m_buffer, pos, i,
                 m_closed_mutex, fg, arg, stopping, wire, written, frames, events,
                 input, nreconf, prior>>
  /\ UNCHANGED <<stale, taskvars>>

\* The 0-based positions q >= from of the sync byte in buf.
SyncAt(buf, from) == {q \in from..(Len(buf) - 1) : buf[q + 1] = SYNC}

\* The least element of a non-empty set of integers.
Least(S) == CHOOSE q \in S : \A r \in S : q <= r

\* case MSTA_SEEK_HDR without m_cached = 0: the cache keeps what it held.
SeekHdrKeepingCache ==
  /\ pc = "seek_hdr"
  /\ IF SyncAt(m_buffer, pos) # {}
     THEN /\ pos' = Least(SyncAt(m_buffer, pos))
          /\ m_state' = MSTA_CACHE_HDR
     ELSE /\ pos' = rv
          /\ UNCHANGED m_state
  /\ pc' = "while"
  /\ UNCHANGED <<m_conf_line, m_param, m_line, m_cache, m_buffer, i,
                 m_closed_mutex, fg, arg, stopping, wire, written, frames, events,
                 input, nreconf, prior>>
  /\ UNCHANGED <<stale, taskvars>>

\* case MSTA_SEEK_HDR: seek the sync byte in the input buffer.
SeekHdr ==
  /\ pc = "seek_hdr"
  /\ IF SyncAt(m_buffer, pos) # {}
     THEN /\ pos' = Least(SyncAt(m_buffer, pos))
          /\ m_state' = MSTA_CACHE_HDR
          /\ m_cache' = <<>>
          /\ stale' = 0
     ELSE /\ pos' = rv
          /\ UNCHANGED <<m_state, m_cache, stale>>
  /\ pc' = "while"
  /\ UNCHANGED <<m_conf_line, m_param, m_line, m_buffer, i,
                 m_closed_mutex, fg, arg, stopping, wire, written, frames, events,
                 input, nreconf, prior>>
  /\ UNCHANGED taskvars

\* case MSTA_SEEK_CACHED_HDR, the for loop: seek the sync byte in the cache
\* from offset 1; when found at i, memmove and m_state = MSTA_CACHE_HDR.
SeekCachedHdr ==
  /\ pc = "seek_cached_hdr"
  /\ IF SyncAt(m_cache, 1) # {}
     THEN /\ i' = Least(SyncAt(m_cache, 1))
          /\ m_cache' = Drop(m_cache, Least(SyncAt(m_cache, 1)))
          /\ stale' = IF stale > Least(SyncAt(m_cache, 1))
                      THEN stale - Least(SyncAt(m_cache, 1)) ELSE 0
          /\ m_state' = MSTA_CACHE_HDR
     ELSE /\ i' = IF m_cached > 1 THEN m_cached ELSE 1
          /\ UNCHANGED <<m_state, m_cache, stale>>
  /\ pc' = "seek_cached_end"
  /\ UNCHANGED <<m_conf_line, m_param, m_line, m_buffer, pos,
                 m_closed_mutex, fg, arg, stopping, wire, written, frames, events,
                 input, nreconf, prior>>
  /\ UNCHANGED taskvars

\* The end of case MSTA_SEEK_CACHED_HDR giving up the rest of the read when
\* it returns to MSTA_SEEK_HDR.
SeekCachedEndSkipRead ==
  /\ pc = "seek_cached_end"
  /\ m_state' = IF m_state # MSTA_CACHE_HDR /\ i = m_cached
                THEN MSTA_SEEK_HDR ELSE m_state
  /\ pos' = IF m_state # MSTA_CACHE_HDR /\ i = m_cached THEN rv ELSE pos
  /\ pc' = "while"
  /\ UNCHANGED <<m_conf_line, m_param, m_line, m_cache, m_buffer, i,
                 m_closed_mutex, fg, arg, stopping, wire, written, frames, events,
                 input, nreconf, prior>>
  /\ UNCHANGED <<stale, taskvars>>

\* The end of case MSTA_SEEK_CACHED_HDR without the return to MSTA_SEEK_HDR.
SeekCachedEndStaying ==
  /\ pc = "seek_cached_end"
  /\ pc' = "while"
  /\ UNCHANGED <<m_state, m_conf_line, m_param, m_line, m_cache, m_buffer, pos, i,
                 m_closed_mutex, fg, arg, stopping, wire, written, frames, events,
                 input, nreconf, prior>>
  /\ UNCHANGED <<stale, taskvars>>

\* if (m_state != MSTA_CACHE_HDR && i == m_cached) m_state = MSTA_SEEK_HDR;
SeekCachedEnd ==
  /\ pc = "seek_cached_end"
  /\ m_state' = IF m_state # MSTA_CACHE_HDR /\ i = m_cached
                THEN MSTA_SEEK_HDR ELSE m_state
  /\ pc' = "while"
  /\ UNCHANGED <<m_conf_line, m_param, m_line, m_cache, m_buffer, pos, i,
                 m_closed_mutex, fg, arg, stopping, wire, written, frames, events,
                 input, nreconf, prior>>
  /\ UNCHANGED <<stale, taskvars>>

\* The copy into m_cache that leaves c cached went beyond the end of the array.
Overrun(c) == Len(c) > c_read_buffer_size

\* The values of m_state, the member that follows m_cache, after a copy beyond
\* the end of the array: undefined behaviour, any state.
AfterOverrun == MSTA_INIT..MSTA_CACHE_DATA

\* The header check of MSTA_CACHE_HDR also rejecting the types the Task does
\* not know.
AfterHeaderKnownType(c) ==
  IF HeaderValid(c) /\ c[3] \in {TYPE_BT, TYPE_AVG}
  THEN MSTA_CACHE_DATA ELSE MSTA_SEEK_CACHED_HDR

\* MSTA_CACHE_HDR without the header check.
AfterHeaderUnchecked(c) == MSTA_CACHE_DATA

\* The state the header check of MSTA_CACHE_HDR selects.
AfterHeader(c) == IF HeaderValid(c) THEN MSTA_CACHE_DATA ELSE MSTA_SEEK_CACHED_HDR

\* case MSTA_CACHE_HDR: copy up to the header size, then check the header.
CacheHdr ==
  /\ pc = "cache_hdr"
  /\ LET len == CopyLen(rv - pos, HDR_SIZE, m_cached)
         c == m_cache \o SubSeq(m_buffer, pos + 1, pos + len)
     IN /\ m_cache' = c
        /\ pos' = pos + len
        /\ IF Overrun(c)
           THEN m_state' \in AfterOverrun
           ELSE m_state' = IF Len(c) = HDR_SIZE THEN AfterHeader(c) ELSE m_state
  /\ pc' = "while"
  /\ UNCHANGED <<m_conf_line, m_param, m_line, m_buffer, i,
                 m_closed_mutex, fg, arg, stopping, wire, written, frames, events,
                 input, nreconf, prior>>
  /\ UNCHANGED <<stale, taskvars>>

\* processFrame(): the cached bytes are dispatched as one DevDataBinary.
processFrame(c) == Append(frames, c)

\* case MSTA_CACHE_DATA: copy up to the announced length, then check the
\* payload; a good frame is dispatched.
CacheData ==
  /\ pc = "cache_data"
  /\ LET datalen == DataLen(m_cache)
         len == CopyLen(rv - pos, HDR_SIZE + datalen, m_cached)
         c == m_cache \o SubSeq(m_buffer, pos + 1, pos + len)
     IN /\ m_cache' = c
        /\ pos' = pos + len
        /\ IF Overrun(c)
           THEN /\ m_state' \in AfterOverrun
                /\ frames' \in {frames}
                     \cup (IF len > 0 /\ Len(c) = HDR_SIZE + datalen
                           THEN {processFrame(c)} ELSE {})
           ELSE IF Len(c) = HDR_SIZE + datalen
           THEN IF PayloadValid(c)
                THEN /\ frames' = processFrame(c)
                     /\ m_state' = MSTA_SEEK_HDR
                ELSE /\ m_state' = MSTA_SEEK_CACHED_HDR
                     /\ UNCHANGED frames
           ELSE UNCHANGED <<m_state, frames>>
  /\ pc' = "while"
  /\ UNCHANGED <<m_conf_line, m_param, m_line, m_buffer, i,
                 m_closed_mutex, fg, arg, stopping, wire, written, events,
                 input, nreconf, prior>>
  /\ UNCHANGED <<stale, taskvars>>

----------------------------------------------------------------------------
(* The foreground thread: Reader::reconfigure and Thread::stopAndJoin *)

\* ScopedMutex m(m_closed_mutex) of reconfigure(param).
ReconfigureLock ==
  /\ fg = "idle"
  /\ nreconf < MaxReconfigure
  /\ m_closed_mutex = "free"
  /\ m_closed_mutex' = "caller"
  /\ fg' = "locked"
  /\ \E p \in Params \ {m_param} : arg' = p
  /\ nreconf' = nreconf + 1
  /\ UNCHANGED <<m_state, m_conf_line, m_param, m_line, m_cache, m_buffer, pos, i,
                 pc, stopping, wire, written, frames, events, input, prior>>
  /\ UNCHANGED <<stale, taskvars>>

\* m_handle->writeString(c_control_seq); m_state = MSTA_CONF;
ReconfigureState ==
  /\ fg = "locked"
  /\ Write(<<Wr(c_control_seq, <<>>)>>)
  /\ m_state' = MSTA_CONF
  /\ prior' = m_state
  /\ stale' = m_cached
  /\ fg' = "stated"
  /\ UNCHANGED <<m_conf_line, m_param, m_line, m_cache, m_buffer, pos, i,
                 pc, m_closed_mutex, arg, stopping, frames, events,
                 input, nreconf>>
  /\ UNCHANGED taskvars

\* The end of reconfigure() also emptying the line accumulator and the cache.
ReconfigureReturnClearing ==
  /\ fg = "stated"
  /\ m_param' = arg
  /\ m_conf_line' = 0
  /\ m_line' = <<>>
  /\ m_cache' = <<>>
  /\ m_closed_mutex' = "free"
  /\ fg' = "idle"
  /\ UNCHANGED <<m_state, m_buffer, pos, i,
                 pc, arg, stopping, wire, written, frames, events,
                 input, nreconf, prior>>
  /\ UNCHANGED <<stale, taskvars>>

\* m_param = param; m_conf_line = 0; and the release of the mutex on return.
ReconfigureReturn ==
  /\ fg = "stated"
  /\ m_param' = arg
  /\ m_conf_line' = 0
  /\ m_closed_mutex' = "free"
  /\ fg' = "idle"
  /\ UNCHANGED <<m_state, m_line, m_cache, m_buffer, pos, i,
                 pc, arg, stopping, wire, written, frames, events,
                 input, nreconf, prior>>
  /\ UNCHANGED <<stale, taskvars>>

\* stopAndJoin(): the stop request.
RequestStop ==
  /\ ~ stopping
  /\ stopping' = TRUE
  /\ UNCHANGED <<m_state, m_conf_line, m_param, m_line, m_cache, m_buffer, pos, i,
                 pc, m_closed_mutex, fg, arg, wire, written, frames, events,
                 input, nreconf, prior>>
  /\ UNCHANGED <<stale, taskvars>>

----------------------------------------------------------------------------
(* The Task: Task::consume(DevDataBinary), Task::processFrame and updateDCM *)


\* Offsets in the payload of a bottom-track record.
OFF_STATUS == 20
OFF_TEMP == 28
OFF_PRS == 32
OFF_VX == 132
OFF_VY == 136
OFF_VZ == 140

\* The multiplier of the pressure.
PRS_SCALE == 1000

\* Default of the "Rotation" parameter: roll, pitch and yaw in degrees.
RotationDefault == <<0, 0, 0>>

\* cos() and sin() of an angle in radians.  Only the angle 0 has an exact
\* floating-point cosine and sine, and it is the only one used.
Cos(a) == CASE a = 0 -> 1
Sin(a) == CASE a = 0 -> 0

\* updateDCM with a sign error in the entry m_dcm[4].
updateDCMWrongSign(roll, pitch, yaw) ==
  LET cr == Cos(roll)  cp == Cos(pitch)  cy == Cos(yaw)
      sr == Sin(roll)  sp == Sin(pitch)  sy == Sin(yaw)
  IN <<cp * cy, sr * sp * cy - cr * sy, cr * sp * cy + sr * sy,
       cp * sy, sr * sp * sy - cr * cy, cr * sp * sy - sr * cy,
       0 - sp, sr * cp, cr * cp>>

\* Task::updateDCM: the nine entries m_dcm[0] .. m_dcm[8].
updateDCM(roll, pitch, yaw) ==
  LET cr == Cos(roll)  cp == Cos(pitch)  cy == Cos(yaw)
      sr == Sin(roll)  sp == Sin(pitch)  sy == Sin(yaw)
  IN <<cp * cy, sr * sp * cy - cr * sy, cr * sp * cy + sr * sy,
       cp * sy, sr * sp * sy + cr * cy, cr * sp * sy - sr * cy,
       0 - sp, sr * cp, cr * cp>>

\* What may follow a frame in memory: four bytes that are all zero, or the
\* four bytes 00 70 00 45 (as a status word bits 12..14 set, as a float 2055).
GarbageWords == {<<0, 0, 0, 0>>, <<0, 112, 0, 69>>}

\* The values std::memcpy(&w, data + HDR_SIZE + off, 4) can leave in w: the
\* four bytes of the frame at that offset or, when they are not all inside the
\* len bytes of the frame, what lies behind it in memory.
Words(data, off) ==
  IF HDR_SIZE + off + 4 <= Len(data)
  THEN {SubSeq(data, HDR_SIZE + off + 1, HDR_SIZE + off + 4)}
  ELSE GarbageWords

\* The uint32_t with the little-endian bytes w (w[4] < 128 in every input).
U32(w) == w[1] + 256 * w[2] + 65536 * w[3] + 16777216 * w[4]

RECURSIVE Pow2(_)
Pow2(n) == IF n = 0 THEN 1 ELSE 2 * Pow2(n - 1)

\* Floating-point values: a finite number, an infinity with its sign, or NaN.
Finite(n) == [cls |-> "finite", v |-> n]
Inf(sign) == [cls |-> "inf", v |-> sign]
NaN == [cls |-> "nan", v |-> 0]

Sgn(n) == IF n < 0 THEN 0 - 1 ELSE 1

\* IEEE 754 multiplication: 0 * inf is NaN.  (The finite values of the inputs
\* and their products are integers far below the range of a float.)
FMul(a, b) ==
  CASE a.cls = "nan" \/ b.cls = "nan" -> NaN
    [] a.cls = "finite" /\ b.cls = "finite" -> Finite(a.v * b.v)
    [] (a.cls = "finite" /\ a.v = 0) \/ (b.cls = "finite" /\ b.v = 0) -> NaN
    [] OTHER -> Inf(Sgn(a.v) * Sgn(b.v))

\* IEEE 754 addition: inf + (-inf) is NaN.
FAdd(a, b) ==
  CASE a.cls = "nan" \/ b.cls = "nan" -> NaN
    [] a.cls = "finite" /\ b.cls = "finite" -> Finite(a.v + b.v)
    [] a.cls = "inf" /\ b.cls = "inf" -> IF a.v = b.v THEN a ELSE NaN
    [] a.cls = "inf" -> a
    [] OTHER -> b

\* The float with the little-endian bytes w (IEEE 754 single precision): the
\* infinities, NaN and, of the finite values, those the inputs use: 0 and the
\* integers of magnitude 1 .. 2^24.
Float32(w) ==
  LET sign == w[4] \div 128
      exp == (w[4] % 128) * 2 + w[3] \div 128
      mant == (w[3] % 128) * 65536 + w[2] * 256 + w[1]
      mag == IF exp = 0 THEN 0 ELSE (8388608 + mant) \div Pow2(150 - exp)
  IN CASE exp = 255 /\ mant = 0 -> Inf(IF sign = 1 THEN 0 - 1 ELSE 1)
       [] exp = 255 /\ mant # 0 -> NaN
       [] OTHER -> Finite(IF sign = 1 THEN 0 - mag ELSE mag)

\* vx * m[a] + vy * m[b] + vz * m[c] with float operands and the double
\* entries of the matrix.
Row(dcm, a, b, c, vx, vy, vz) ==
  FAdd(FAdd(FMul(Float32(vx), Finite(dcm[a])), FMul(Float32(vy), Finite(dcm[b]))),
       FMul(Float32(vz), Finite(dcm[c])))

\* (status >> 12) & 7
Validity(status) == (status \div 4096) % 8

\* The test of processBottomTrack with only two of the three bits.
VelocityValidTwoBits(status) == (status \div 4096) % 4 = 3

\* ((status >> 12) & 0x07) == 0x07
VelocityValid(status) == Validity(status) = 7

\* The messages of processBottomTrack with the pressure left unscaled and
\* dispatched after the temperature.
BottomTrackMessagesUnscaled(dcm, status, vx, vy, vz, prs, temp) ==
  (IF VelocityValid(U32(status))
   THEN <<[msg |-> "GroundVelocity",
           x |-> Row(dcm, 1, 2, 3, vx, vy, vz),
           y |-> Row(dcm, 4, 5, 6, vx, vy, vz),
           z |-> Row(dcm, 7, 8, 9, vx, vy, vz),
           validity |-> Validity(U32(status))]>>
   ELSE <<>>)
  \o <<[msg |-> "Temperature", value |-> Float32(temp)],
       [msg |-> "Pressure", value |-> Float32(prs)]>>

\* The messages processBottomTrack dispatches, in order, for the words it
\* read: m_gvel when the three bits are set, then m_prs, then m_temp.
BottomTrackMessages(dcm, status, vx, vy, vz, prs, temp) ==
  (IF VelocityValid(U32(status))
   THEN <<[msg |-> "GroundVelocity",
           x |-> Row(dcm, 1, 2, 3, vx, vy, vz),
           y |-> Row(dcm, 4, 5, 6, vx, vy, vz),
           z |-> Row(dcm, 7, 8, 9, vx, vy, vz),
           validity |-> Validity(U32(status))]>>
   ELSE <<>>)
  \o <<[msg |-> "Pressure", value |-> FMul(Float32(prs), Finite(PRS_SCALE))],
       [msg |-> "Temperature", value |-> Float32(temp)]>>

\* Task::processBottomTrack(data, len): the message sequences it can dispatch.
processBottomTrack(data, dcm) ==
  {BottomTrackMessages(dcm, status, vx, vy, vz, prs, temp) :
     status \in Words(data, OFF_STATUS),
     vx \in Words(data, OFF_VX), vy \in Words(data, OFF_VY),
     vz \in Words(data, OFF_VZ),
     prs \in Words(data, OFF_PRS), temp \in Words(data, OFF_TEMP)}

\* Task::processAverageData(data, len): nothing is decoded.
processAverageData(data) == {<<>>}

\* Task::processFrame taking every type for a bottom-track record.
Task_processFrameAnyType(data, dcm) == processBottomTrack(data, dcm)

\* Task::processFrame(data, len): switch (data[2]).
Task_processFrame(data, dcm) ==
  CASE data[3] = TYPE_BT -> processBottomTrack(data, dcm)
    [] data[3] = TYPE_AVG -> processAverageData(data)
    [] OTHER -> {<<>>}

\* Task::consume(const IMC::DevDataBinary*): the next dispatched frame is
\* processed.
consume ==
  /\ consumed < Len(frames)
  /\ consumed' = consumed + 1
  /\ \E out \in Task_processFrame(frames[consumed + 1], m_dcm) :
       sink' = sink \o out
  /\ UNCHANGED <<m_state, m_conf_line, m_param, m_line, m_cache, m_buffer, pos, i,
                 pc, m_closed_mutex, fg, arg, stopping, wire, written, frames,
                 events, input, nreconf, prior, m_dcm, initvars, stale>>

\* Task::onUpdateParameters when the rotation changed (also the first load of
\* the parameters): updateDCM with the angles in radians.
UpdateRotation ==
  /\ m_dcm' = updateDCM(RotationDefault[1], RotationDefault[2], RotationDefault[3])
  /\ UNCHANGED <<m_state, m_conf_line, m_param, m_line, m_cache, m_buffer, pos, i,
                 pc, m_closed_mutex, fg, arg, stopping, wire, written, frames,
                 events, input, nreconf, prior, sink, consumed, initvars, stale>>

\* The entity state before any setEntityState, and the one
\* onResourceInitialization sets (with Status::CODE_ACTIVE).
ESTA_BOOT == "ESTA_BOOT"
ESTA_NORMAL == "ESTA_NORMAL"
FAILED_SETUP == "failed to setup device"

\* while (!stopping() && !counter.overflow()) of onResourceInitialization:
\* a stop request or the end of c_init_tout leaves the loop.
InitLoop ==
  /\ tpc = "loop"
  /\ \E leave \in BOOLEAN : tpc' = IF leave THEN "after" ELSE "wait"
  /\ UNCHANGED <<m_state, m_conf_line, m_param, m_line, m_cache, m_buffer, pos, i,
                 pc, m_closed_mutex, fg, arg, stopping, wire, written, frames,
                 events, input, nreconf, prior, m_dcm, sink, consumed,
                 ok, entity_state, thrown, stale>>

\* The loop observing a state below MSTA_CONF as well.
InitObserveAnyState ==
  /\ tpc = "wait"
  /\ m_closed_mutex = "free"
  /\ IF m_state >= MSTA_INIT
     THEN ok' = TRUE /\ tpc' = "after"
     ELSE ok' = ok /\ tpc' = "loop"
  /\ UNCHANGED <<m_state, m_conf_line, m_param, m_line, m_cache, m_buffer, pos, i,
                 pc, m_closed_mutex, fg, arg, stopping, wire, written, frames,
                 events, input, nreconf, prior, m_dcm, sink, consumed,
                 entity_state, thrown, stale>>

\* The return of waitForMessages and if (m_reader->getState() >= MSTA_SEEK_HDR)
\* { ok = true; break; }; getState() reads m_state under m_closed_mutex.
InitObserve ==
  /\ tpc = "wait"
  /\ m_closed_mutex = "free"
  /\ IF m_state >= MSTA_SEEK_HDR
     THEN ok' = TRUE /\ tpc' = "after"
     ELSE ok' = ok /\ tpc' = "loop"
  /\ UNCHANGED <<m_state, m_conf_line, m_param, m_line, m_cache, m_buffer, pos, i,
                 pc, m_closed_mutex, fg, arg, stopping, wire, written, frames,
                 events, input, nreconf, prior, m_dcm, sink, consumed,
                 entity_state, thrown, stale>>

\* if (!ok) throw std::runtime_error("failed to setup device");
\* setEntityState(ESTA_NORMAL, CODE_ACTIVE);
InitFinish ==
  /\ tpc = "after"
  /\ IF ~ ok
     THEN /\ thrown' = FAILED_SETUP
          /\ tpc' = "thrown"
          /\ UNCHANGED entity_state
     ELSE /\ entity_state' = ESTA_NORMAL
          /\ tpc' = "done"
          /\ UNCHANGED thrown
  /\ UNCHANGED <<m_state, m_conf_line, m_param, m_line, m_cache, m_buffer, pos, i,
                 pc, m_closed_mutex, fg, arg, stopping, wire, written, frames,
                 events, input, nreconf, prior, m_dcm, sink, consumed, ok, stale>>

\* Task::consume(const IMC::IoEvent*) called by waitForMessages: an input
\* error the reader reported throws RestartNeeded out of the initialization.
consumeIoEvent ==
  /\ tpc = "wait"
  /\ events # <<>>
  /\ thrown' = "RestartNeeded"
  /\ tpc' = "thrown"
  /\ UNCHANGED <<m_state, m_conf_line, m_param, m_line, m_cache, m_buffer, pos, i,
                 pc, m_closed_mutex, fg, arg, stopping, wire, written, frames,
                 events, input, nreconf, prior, m_dcm, sink, consumed,
                 ok, entity_state, stale>>

\* waitForMessages(counter.getRemaining()) of onResourceInitialization: the
\* messages that arrived are handed to the consume handlers.  The frames it
\* hands to consume(const IMC::DevDataBinary*) change sink and consumed only
\* and are followed in SpecTask.
WaitForMessages ==
  /\ tpc = "wait"
  /\ consumeIoEvent

\* Task::onResourceInitialization
onResourceInitialization ==
  \/ InitLoop
  \/ WaitForMessages
  \/ InitObserve
  \/ InitFinish

----------------------------------------------------------------------------
(* Specifications *)

Reader ==
  \/ RunLoop
  \/ PollTimeout
  \/ ReadBytes
  \/ ReadZero
  \/ Branch
  \/ TextSwitch
  \/ AuthLock
  \/ Auth
  \/ ConfLock
  \/ Conf
  \/ While
  \/ Switch
  \/ SeekHdr
  \/ SeekCachedHdr
  \/ SeekCachedEnd
  \/ CacheHdr
  \/ CacheData

Caller ==
  \/ ReconfigureLock
  \/ ReconfigureState
  \/ ReconfigureReturn
  \/ RequestStop

\* The devices the driver is started on: one that accepts the login and the
\* configuration and then streams a frame in two bursts and a frame with a
\* changed payload byte; one that rejects a command; one that refuses the login.
Devices ==
  {[kind |-> "ok", bursts |-> <<STR_USERNAME>>,
    stream |-> <<Take(DeviceFrame(TYPE_BT, <<1, 2>>), 4),
                 Drop(DeviceFrame(TYPE_BT, <<1, 2>>), 4),
                 DeviceHeader(TYPE_BT, 2, checksum(<<1, 2>>)),
                 <<SYNC, 2>>>>,
    first |-> DeviceFrame(TYPE_BT, <<1, 2>>), second |-> <<>>, kept |-> 0],
   [kind |-> "error", bursts |-> <<STR_USERNAME>>, stream |-> <<>>,
    first |-> <<>>, second |-> <<>>, kept |-> 0],
   [kind |-> "refused", bursts |-> <<STR_USERNAME>>, stream |-> <<>>,
    first |-> <<>>, second |-> <<>>, kept |-> 0]}

\* The state the constructor leaves; m_conf_line is not initialised.
Init ==
  /\ m_state = MSTA_INIT
  /\ m_conf_line \in {0, 255}
  /\ m_param = ParamDefault
  /\ m_line = <<>>
  /\ m_cache = <<>>
  /\ m_buffer = <<>>
  /\ pos = 0
  /\ i = 0
  /\ pc = "run"
  /\ m_closed_mutex = "free"
  /\ fg = "idle"
  /\ arg = ParamDefault
  /\ stopping = FALSE
  /\ input \in Devices
  /\ wire = input.bursts
  /\ written = <<>>
  /\ frames = <<>>
  /\ events = <<>>
  /\ nreconf = 0
  /\ prior = MSTA_INIT
  /\ m_dcm = updateDCM(0, 0, 0)
  /\ tpc = "loop"
  /\ ok = FALSE
  /\ entity_state = ESTA_BOOT
  /\ thrown = ""
  /\ stale = 0
  /\ sink = <<>>
  /\ consumed = 0

Next == Reader \/ Caller

Spec == Init /\ [][Next]_vars

\* The driver while the Task waits for it in onResourceInitialization.
NextInit == Next \/ onResourceInitialization

SpecInit == Init /\ [][NextInit]_vars

\* The reader thread keeps running while it has a step to take, and a caller
\* that has entered reconfigure() leaves it.
SpecLive ==
  /\ Init
  /\ [][Next]_vars
  /\ WF_vars(Reader)
  /\ WF_vars(ReconfigureState \/ ReconfigureReturn)

\* "\r\n" and "\n".
CRLF == <<13, 10>>
LF == <<CHAR_LF>>

\* The error descriptions a device sends after GETERROR: the text "E1" or
\* nothing, ended by "\r\n" or by "\n" alone.
ErrorTexts == {<<>>, <<69, 49>>}
LineEnds == {CRLF, LF}

\* Text the device sends whatever it receives.  "prompts": the three prompts
\* of a login, each in a packet of its own or all in one packet; "failed": a
\* login the device rejects, the rejection alone or followed by the new login
\* prompt; "oks": five or six "OK\r\n" lines; "errline": "ERROR\r\n", then
\* the line second (the text first and its end) in reply to GETERROR;
\* "flood": after the noise first, which matched no prompt and is still in the
\* line accumulator, more noise and the login prompt.
TextInputs ==
  {[kind |-> "prompts", bursts |-> b, stream |-> <<>>,
    first |-> <<>>, second |-> <<>>, kept |-> 0] :
     b \in {<<STR_USERNAME, STR_PASSWORD, STR_COMMAND_INTERFACE>>,
            <<STR_USERNAME \o STR_PASSWORD \o STR_COMMAND_INTERFACE>>}}
  \cup
  {[kind |-> "failed", bursts |-> <<STR_USERNAME, STR_PASSWORD>> \o b,
    stream |-> <<>>, first |-> <<>>, second |-> <<>>, kept |-> 0] :
     b \in {<<STR_LOGIN_FAILED \o CRLF>>,
            <<STR_LOGIN_FAILED \o CRLF, STR_USERNAME>>}}
  \cup
  {[kind |-> "oks", bursts |-> [k \in 1..n |-> STR_OK], stream |-> <<>>,
    first |-> <<>>, second |-> <<>>, kept |-> 0] : n \in {5, 6}}
  \cup
  {[kind |-> "errline", bursts |-> <<STR_ERROR>>, stream |-> <<>>,
    first |-> x[1], second |-> x[1] \o x[2], kept |-> 0] :
     x \in ErrorTexts \X LineEnds}
  \cup
  {[kind |-> "flood", bursts |-> <<Noise(n) \o STR_USERNAME>>, stream |-> <<>>,
    first |-> Noise(c_read_buffer_size - Len(STR_USERNAME)), second |-> <<>>,
    kept |-> 0] : n \in {0, Len(STR_USERNAME)}}

\* The driver at the start of a login (the state the constructor leaves), with
\* the noise read so far in the line accumulator or, for the inputs that
\* begin in the configuration, as auth() leaves it on "Command Interface\r\n".
InitText ==
  /\ input \in TextInputs
  /\ IF input.kind \in {"prompts", "failed", "flood"}
     THEN /\ m_state = MSTA_INIT
          /\ m_conf_line \in {0, 255}
          /\ written = <<>>
     ELSE /\ m_state = MSTA_CONF
          /\ m_conf_line = 0
          /\ written = Take(HandshakeWrites(ParamDefault), 5)
  /\ m_param = ParamDefault
  /\ m_line = IF input.kind = "flood" THEN input.first ELSE <<>>
  /\ m_cache = <<>>
  /\ m_buffer = <<>>
  /\ pos = 0
  /\ i = 0
  /\ pc = "run"
  /\ m_closed_mutex = "free"
  /\ fg = "idle"
  /\ arg = ParamDefault
  /\ stopping = FALSE
  /\ wire = input.bursts
  /\ frames = <<>>
  /\ events = <<>>
  /\ nreconf = 0
  /\ prior = MSTA_INIT
  /\ m_dcm = updateDCM(0, 0, 0)
  /\ tpc = "loop"
  /\ ok = FALSE
  /\ entity_state = ESTA_BOOT
  /\ thrown = ""
  /\ stale = 0
  /\ sink = <<>>
  /\ consumed = 0

\* The reader alone in text mode, the link staying up.
NextText ==
  \/ RunLoop
  \/ PollTimeout
  \/ ReadBytes
  \/ ReadPart
  \/ Branch
  \/ TextSwitch
  \/ AuthLock
  \/ Auth
  \/ ConfLock
  \/ Conf

SpecText == InitText /\ [][NextText]_vars

\* The floats 1.0, -2.0, 3.0 and +infinity as little-endian bytes.
F32_INF == <<0, 0, 128, 127>>
F32_1 == <<0, 0, 128, 63>>
F32_M2 == <<0, 0, 0, 192>>
F32_3 == <<0, 0, 64, 64>>

\* The payload of a bottom-track record with the given words at their
\* offsets and zeros elsewhere.
BottomTrackPayload(status, vx, vy, vz, prs, temp) ==
  Fill(OFF_STATUS, 0) \o status \o Fill(OFF_TEMP - OFF_STATUS - 4, 0)
    \o temp \o prs \o Fill(OFF_VX - OFF_PRS - 4, 0) \o vx \o vy \o vz

\* Status words: every value of bits 12..14, with all other bits of the low
\* 31 clear or set.
StatusWords ==
  {<<a[1], 16 * v + a[2], a[1], a[3]>> :
     v \in 0..7, a \in {<<0, 0, 0>>, <<255, 143, 127>>}}

\* The validated frames the reader hands to the Task: bottom-track records
\* with velocity (1, -2, 3), pressure 3 and temperature 1, one with the
\* velocity (1, +infinity, 3) and the three bits set, an average record,
\* records of two other types, a bottom-track record that ends before its
\* third velocity component and a bottom-track record of two payload bytes.
TaskFrames ==
  {DeviceFrame(TYPE_BT, BottomTrackPayload(st, F32_1, F32_M2, F32_3, F32_3, F32_1)) :
     st \in StatusWords}
  \cup {DeviceFrame(TYPE_BT,
          BottomTrackPayload(<<0, 112, 0, 0>>, F32_1, F32_INF, F32_3, F32_3, F32_1)),
        DeviceFrame(TYPE_AVG, Fill(4, 0)), DeviceFrame(0, <<1>>),
        DeviceFrame(UnknownType, <<1>>),
        DeviceFrame(TYPE_BT,
          Take(BottomTrackPayload(<<0, 112, 0, 0>>, F32_1, F32_M2, F32_3, F32_3, F32_1),
               OFF_VZ)),
        DeviceFrame(TYPE_BT, <<1, 2>>)}

TaskInputs ==
  {[kind |-> "frames", frames |-> fs] :
     fs \in UNION {[1..n -> TaskFrames] : n \in 1..MaxFrames}}

\* The Task with frames dispatched to it and not yet consumed, the reader in
\* binary mode after a handshake.
InitTask ==
  /\ input \in TaskInputs
  /\ frames = input.frames
  /\ m_state = MSTA_SEEK_HDR
  /\ m_conf_line = 6
  /\ m_param = ParamDefault
  /\ m_line = <<>>
  /\ m_cache = <<>>
  /\ m_buffer = <<>>
  /\ pos = 0
  /\ i = 0
  /\ pc = "run"
  /\ m_closed_mutex = "free"
  /\ fg = "idle"
  /\ arg = ParamDefault
  /\ stopping = FALSE
  /\ wire = <<>>
  /\ written = HandshakeWrites(ParamDefault)
  /\ events = <<>>
  /\ nreconf = 0
  /\ prior = MSTA_INIT
  /\ m_dcm = updateDCM(0, 0, 0)
  /\ tpc = "loop"
  /\ ok = FALSE
  /\ entity_state = ESTA_BOOT
  /\ thrown = ""
  /\ stale = 0
  /\ sink = <<>>
  /\ consumed = 0

\* The handlers of the Task.
NextTask ==
  \/ consume
  \/ UpdateRotation

SpecTask == InitTask /\ [][NextTask]_vars

\* The driver in binary mode after a handshake, about to receive frames.
InitDecode ==
  /\ input \in DecodeInputs
  /\ m_state = MSTA_SEEK_HDR
  /\ m_conf_line = 6
  /\ m_param = ParamDefault
  /\ m_line = <<>>
  /\ m_cache = <<>>
  /\ m_buffer = <<>>
  /\ pos = 0
  /\ i = 0
  /\ pc = "run"
  /\ m_closed_mutex = "free"
  /\ fg = "idle"
  /\ arg = ParamDefault
  /\ stopping = FALSE
  /\ wire = input.bursts
  /\ written = HandshakeWrites(ParamDefault)
  /\ frames = <<>>
  /\ events = <<>>
  /\ nreconf = 0
  /\ prior = MSTA_INIT
  /\ m_dcm = updateDCM(0, 0, 0)
  /\ tpc = "loop"
  /\ ok = FALSE
  /\ entity_state = ESTA_BOOT
  /\ thrown = ""
  /\ stale = 0
  /\ sink = <<>>
  /\ consumed = 0

\* The reader alone, the link staying up.
NextDecode ==
  \/ RunLoop
  \/ PollTimeout
  \/ ReadBytes
  \/ ReadPart
  \/ Branch
  \/ While
  \/ Switch
  \/ SeekHdr
  \/ SeekCachedHdr
  \/ SeekCachedEnd
  \/ CacheHdr
  \/ CacheData

SpecDecode == InitDecode /\ [][NextDecode]_vars

\* The driver in CacheData with the first bytes of a long frame cached.
InitLong ==
  /\ input \in LongInputs
  /\ m_state = MSTA_CACHE_DATA
  /\ m_conf_line = 6
  /\ m_param = ParamDefault
  /\ m_line = <<>>
  /\ m_cache = input.first
  /\ m_buffer = <<>>
  /\ pos = 0
  /\ i = 0
  /\ pc = "run"
  /\ m_closed_mutex = "free"
  /\ fg = "idle"
  /\ arg = ParamDefault
  /\ stopping = FALSE
  /\ wire = input.bursts
  /\ written = HandshakeWrites(ParamDefault)
  /\ frames = <<>>
  /\ events = <<>>
  /\ nreconf = 0
  /\ prior = MSTA_INIT
  /\ m_dcm = updateDCM(0, 0, 0)
  /\ tpc = "loop"
  /\ ok = FALSE
  /\ entity_state = ESTA_BOOT
  /\ thrown = ""
  /\ stale = 0
  /\ sink = <<>>
  /\ consumed = 0

SpecLong == InitLong /\ [][NextDecode]_vars

----------------------------------------------------------------------------
(* The frame decoder on a byte stream (SpecDecode) *)

\* Every byte of the input has been read and read() has returned.
Delivered == wire = <<>> /\ pc \in {"run", "read"}

\* c occurs among the dispatched frames.
Emitted(c) == \E k \in 1..Len(frames) : frames[k] = c

\* C1: starting in SeekHeader, once one frame with a correct header checksum
\* and a correct payload checksum has been delivered, in any split across
\* reads, exactly one frame has been emitted, its bytes are the input frame's
\* bytes, and the state is SeekHeader.
C1_ValidFrameEmitted ==
  (input.kind = "single" /\ Delivered)
    => (frames = <<input.first>> /\ m_state = MSTA_SEEK_HDR)

\* The same for frames with at least one payload byte.
C1_NonEmptyFrameEmitted ==
  (input.kind = "single" /\ Len(input.first) > HDR_SIZE /\ Delivered)
    => (frames = <<input.first>> /\ m_state = MSTA_SEEK_HDR)

\* Every frame c with a valid header fails the payload check after any change
\* of one payload byte to any other value.
OneByteChangeDetected(c) ==
  \A k \in (HDR_SIZE + 1)..Len(c) : \A v \in (0..255) \ {c[k]} :
    ~ PayloadValid([c EXCEPT ![k] = v])

\* C2: for a frame with a valid header, changing exactly one payload byte (any
\* position, any other value) makes the payload comparison fail; the step that
\* completes the changed frame in CacheData emits nothing and moves the
\* decoder to SeekCachedHeader, and the changed frame is never emitted.
C2_CorruptPayloadRejected ==
  /\ [](input.kind = "single" /\ frames = <<input.first>>
          => OneByteChangeDetected(input.first))
  /\ [](input.kind = "corrupt" => ~ Emitted(input.first))
  /\ [][(input.kind = "corrupt" /\ pc = "cache_data" /\ m_cache' = input.first)
          => (m_state = MSTA_CACHE_DATA /\ m_state' = MSTA_SEEK_CACHED_HDR
              /\ frames' = frames)]_vars

\* C2 witness: the changed frame is complete in the cache, nothing was emitted
\* and the decoder is in SeekCachedHeader.
C2_Witness ==
  /\ input.kind = "corrupt"
  /\ m_cache = input.first
  /\ m_state = MSTA_SEEK_CACHED_HDR
  /\ frames = <<>>

\* C3: after a payload checksum failure on a frame whose cached bytes hold, at
\* an offset i >= 1, the sync byte of a following valid frame, that frame is
\* emitted once its bytes have arrived, for every i (also those that leave
\* more than 10 bytes in the cache).
C3_FollowingFrameNotLost ==
  (input.kind = "lost" /\ Delivered) => Emitted(input.second)

\* The same for the offsets that leave at most 10 bytes in the cache.
C3_FollowingFrameKept ==
  (input.kind = "lost" /\ input.kept <= HDR_SIZE /\ Delivered)
    => Emitted(input.second)

\* C4: the cache holds at most 10 bytes in CacheHeader and at most 10 + the
\* announced payload length in CacheData.
C4_CacheBounded ==
  /\ m_state = MSTA_CACHE_HDR => m_cached <= HDR_SIZE
  /\ m_state = MSTA_CACHE_DATA => m_cached <= HDR_SIZE + DataLen(m_cache)

\* C5: when a checksum failure has put the decoder in SeekCachedHeader and the
\* cache holds another sync byte at an offset >= 1, read() does not return
\* (and no further read is made) before the cache has been rescanned, also
\* when the failure was found on the last byte of the read.
C5_RescanWithoutRead ==
  ~ (/\ m_state = MSTA_SEEK_CACHED_HDR
     /\ SyncAt(m_cache, 1) # {}
     /\ pc \in {"run", "read"})

----------------------------------------------------------------------------
(* The reader and reconfigure() (Spec, SpecLive) *)

\* A reconfigure() call has returned.
Reconfigured == nreconf > 0 /\ fg = "idle"

\* C6: once reconfigure() has returned, the reader does not overwrite the
\* Configuring state with a frame-decoder state and emits no frame until the
\* handshake (the default case of conf()) has moved the state to SeekHeader.
C6_ReconfigureObserved ==
  [][(Reconfigured /\ m_state = MSTA_CONF)
       => /\ frames' = frames
          /\ m_state' \in BinaryStates
               => (pc = "conf_locked" /\ m_state' = MSTA_SEEK_HDR)]_vars

\* C7: every transition of the protocol state, every write of the parameters
\* and every write formatted from them is made by a thread that holds the
\* mutex.
C7_StateUnderLock ==
  [][(m_state' # m_state \/ m_param' # m_param \/ written' # written)
       => IF fg' # fg THEN m_closed_mutex = "caller"
                      ELSE m_closed_mutex = "reader"]_vars

\* C8: whatever the state reconfigure() is called in, it writes the control
\* sequence and at its return the state is Configuring, the step counter is 0
\* and the stored parameters are the new ones.
C8_ReconfigureResult ==
  [][(fg = "stated" /\ fg' = "idle")
       => /\ m_state' = MSTA_CONF
          /\ m_conf_line' = 0
          /\ m_param' = arg
          /\ written # <<>>
          /\ \E k \in 1..Len(written) : written[k] = Wr(c_control_seq, <<>>)]_vars

\* C9: after a reconfigure() made in any state, with a device that sends its
\* prompts and answers every command with "OK\r\n", the driver, left in
\* Configuring by the call, reaches SeekHeader again unless a fatal error or a
\* stop request ends the loop.
C9_ReconfigureReachesSeekHeader ==
  (Reconfigured /\ m_state = MSTA_CONF /\ input.kind = "ok")
    ~> (m_state = MSTA_SEEK_HDR \/ events # <<>> \/ stopping)

\* C10: once a stop is requested the reader loop terminates, whatever
\* reconfigure() calls are interleaved with it.
C10_StopTerminates == stopping ~> (pc = "done")

----------------------------------------------------------------------------
(* The text handshake on a byte stream (SpecText) *)

\* The writes of the login: username, "\n", password, "\n", control sequence.
LoginWrites == Take(HandshakeWrites(ParamDefault), 5)

\* C11: from Init, once the bytes of "Username: ", "Password: " and
\* "Command Interface\r\n" have been delivered in that order, split across
\* reads in any way (several prompts in one read included), exactly three
\* writes have been made, in order username + "\n", password + "\n" and the
\* control sequence, and the driver is in Configuring with step counter 0.
C11_PromptsDriveLogin ==
  (input.kind = "prompts" /\ Delivered)
    => (written = LoginWrites /\ m_state = MSTA_CONF /\ m_conf_line = 0)

\* C12: from Configuring with step counter 0, once five "OK\r\n" lines have
\* been delivered, none of them in the same read as another, exactly five
\* writes have been made (menu command, SETDVL, SETBT, SETCURPROF, START) and
\* the state is SeekHeader.
C12_FiveOksReachSeekHeader ==
  (input.kind = "oks" /\ Len(input.bursts) = 5 /\ Delivered /\ m_conf_line = 5)
    => (written = HandshakeWrites(ParamDefault) /\ m_state = MSTA_SEEK_HDR)

\* C12, amended: from Configuring with step counter 0, five "OK\r\n" lines,
\* none in the same read as another, drive exactly the five writes of the
\* command list and leave the driver in Configuring with step counter 5; a
\* sixth line, the reply to START, makes no write and moves it to SeekHeader.
C12_SixthOkReachesSeekHeader ==
  (input.kind = "oks" /\ Delivered /\ m_conf_line = Len(input.bursts))
    => /\ written = HandshakeWrites(ParamDefault)
       /\ m_state = IF Len(input.bursts) = 5 THEN MSTA_CONF ELSE MSTA_SEEK_HDR

\* C12 witness: five lines have been processed one by one, the five commands
\* are written and the driver is still in Configuring.
C12_Witness ==
  /\ input.kind = "oks"
  /\ Len(input.bursts) = 5
  /\ Delivered
  /\ m_conf_line = 5
  /\ written = HandshakeWrites(ParamDefault)
  /\ m_state = MSTA_CONF

\* C13: in Configuring every "OK\r\n" received advances the step counter by
\* one and writes the next command, also when several arrive in one read:
\* once n lines (n = 5 or 6) have been delivered the step counter is n and the
\* five commands have been written.
C13_EveryOkAdvances ==
  (input.kind = "oks" /\ Delivered)
    => (m_conf_line = Len(input.bursts) /\ written = HandshakeWrites(ParamDefault))

\* C14: in Init, whenever auth() examines accumulated text that contains
\* "Login failed", it reports one I/O error event "Login failed", the loop
\* stops and nothing is written, also when the text contains a "Username: "
\* or "Password: " prompt.
C14_LoginFailedIsTerminal ==
  [][(pc = "auth_locked" /\ Contains(m_line, STR_LOGIN_FAILED))
       => (events' = <<WHAT_LOGIN_FAILED>> /\ pc' = "done" /\ written' = written)]_vars

\* The same when the text holds no prompt.
C14_LoginFailedAlone ==
  [][(/\ pc = "auth_locked"
      /\ Contains(m_line, STR_LOGIN_FAILED)
      /\ ~ Contains(m_line, STR_USERNAME)
      /\ ~ Contains(m_line, STR_PASSWORD)
      /\ ~ Contains(m_line, STR_COMMAND_INTERFACE))
       => (events' = <<WHAT_LOGIN_FAILED>> /\ pc' = "done" /\ written' = written)]_vars

\* C15: in Configuring, on "ERROR\r\n" the driver writes GETERROR and enters
\* ErrorReported; the next full line received is reported as the one fatal
\* error, its message being the line's text without the line end, wherever
\* the line end falls in the received bytes.
C15_ErrorLineReported ==
  /\ (input.kind = "errline" /\ m_state = MSTA_ERROR)
       => written = Append(LoginWrites, Wr("GETERROR\r\n", <<>>))
  /\ (input.kind = "errline" /\ pc = "done") => events = <<input.first>>

\* The same for the lines that end with "\r\n".
C15_CrLfLineReported ==
  /\ (input.kind = "errline" /\ m_state = MSTA_ERROR)
       => written = Append(LoginWrites, Wr("GETERROR\r\n", <<>>))
  /\ (input.kind = "errline" /\ input.second = input.first \o CRLF /\ pc = "done")
       => events = <<input.first>>

----------------------------------------------------------------------------
(* Fatal errors and the emitted frames *)

\* C16: a read that returns zero bytes, in any protocol state, dispatches
\* exactly one I/O error event ("invalid read size") and ends the loop; read()
\* returns to the loop without having read only when the poll found nothing.
C16_ZeroReadIsFatal ==
  [][(pc = "read" /\ pc' \notin {"read", "branch"})
       => \/ (wire = <<>> /\ pc' = "run" /\ events' = events)
          \/ (pc' = "done" /\ events' = <<WHAT_INVALID_READ>>)]_vars

\* C16 witness: a zero-length read in binary mode has ended the loop with one
\* event.
C16_Witness ==
  pc = "done" /\ events = <<WHAT_INVALID_READ>> /\ m_state \in BinaryStates

\* C17: at most one I/O error event is dispatched, whatever its kind; once it
\* is dispatched the loop has ended, and the reader thread reads nothing,
\* writes nothing, changes no state and emits no frame any more.
C17_SingleErrorEvent ==
  /\ [](Len(events) <= 1)
  /\ [](events # <<>> => pc = "done")
  /\ [][pc = "done"
          => /\ pc' = "done"
             /\ events' = events
             /\ frames' = frames
             /\ UNCHANGED <<m_line, m_cache, m_buffer, pos, i>>
             /\ fg' = fg => UNCHANGED <<m_state, m_conf_line, written, wire>>]_vars

\* C17 witness: the device's error line has been reported and the loop has
\* ended.
C17_Witness ==
  pc = "done" /\ input.kind = "error" /\ events = <<Take(ERROR_LINE, 2)>>

\* C18: the step that finds a header or payload checksum mismatch dispatches
\* no event and no frame and does not leave the loop; it moves the decoder to
\* SeekCachedHeader.
C18_MismatchNotSurfaced ==
  [][(\/ /\ pc = "cache_hdr"
         /\ Len(m_cache') = HDR_SIZE
         /\ ~ HeaderValid(m_cache')
      \/ /\ pc = "cache_data"
         /\ Len(m_cache') = HDR_SIZE + DataLen(m_cache)
         /\ ~ PayloadValid(m_cache'))
       => /\ m_state' = MSTA_SEEK_CACHED_HDR
          /\ events' = events
          /\ frames' = frames
          /\ pc' = "while"]_vars

\* C18 witness: a header has failed its check and the decoder is in
\* SeekCachedHeader with nothing reported.
C18_Witness ==
  /\ m_state = MSTA_SEEK_CACHED_HDR
  /\ Len(m_cache) = HDR_SIZE
  /\ ~ HeaderValid(m_cache)
  /\ pc = "while"
  /\ events = <<>>

\* The format of a frame: sync byte, header size, header checksum over bytes
\* 0..7 in bytes 8..9, length 10 + the length in bytes 4..5, and the payload
\* checksum in bytes 6..7.
FrameValid(c) ==
  /\ Len(c) >= HDR_SIZE
  /\ c[1] = SYNC
  /\ c[2] = HDR_SIZE
  /\ LE16(c[9], c[10]) = checksum(Take(c, 8))
  /\ Len(c) = HDR_SIZE + LE16(c[5], c[6])
  /\ LE16(c[7], c[8]) = checksum(Drop(c, HDR_SIZE))

\* C19: every emitted frame passed both checks: it starts with 0xA5, its byte
\* 1 is 10, its bytes 8..9 are the checksum of bytes 0..7, its length is 10 +
\* the length in bytes 4..5 and its bytes 6..7 are the checksum of its
\* payload, after any reads, resyncs and reconfigure() calls.
C19_EmittedFramesValid == \A k \in 1..Len(frames) : FrameValid(frames[k])

\* C19 witness: a frame was emitted, a payload failed its check and
\* reconfigure() was called.
C19_Witness ==
  /\ frames # <<>>
  /\ Reconfigured
  /\ m_state = MSTA_SEEK_CACHED_HDR

\* The sum of the floor(len / 2) little-endian 16-bit words of data.
RECURSIVE SumOfWords(_)
SumOfWords(data) ==
  IF Len(data) < 2 THEN 0
  ELSE LE16(data[1], data[2]) + SumOfWords(Drop(data, 2))

\* (0xB58C + the words + the last byte << 8 when the length is odd) mod 65536.
ChecksumFormula(data) ==
  (CHECKSUM_SEED + SumOfWords(data)
     + (IF Len(data) % 2 = 1 THEN 256 * data[Len(data)] ELSE 0)) % 65536

\* C20: checksum(data, len) is (0xB58C + the sum of the floor(len / 2)
\* little-endian words of the range + the last byte << 8 when len is odd)
\* mod 65536, and 0xB58C for the empty range: checked on the cached bytes, on
\* the header range (bytes 0..7) and on the payload range.
C20_ChecksumIsFormula ==
  /\ checksum(<<>>) = CHECKSUM_SEED
  /\ \A d \in {m_cache, Take(m_cache, Min(m_cached, HDR_SIZE - 2)),
                Drop(m_cache, HDR_SIZE)} :
       checksum(d) = ChecksumFormula(d)

\* C20 witness: a cached range of odd length whose sum exceeds 16 bits.
C20_Witness ==
  /\ m_cached % 2 = 1
  /\ m_cached > HDR_SIZE
  /\ CHECKSUM_SEED + SumOfWords(m_cache) + 256 * m_cache[m_cached] >= 65536

----------------------------------------------------------------------------
(* The Task's frame handlers (SpecTask) *)

\* The frame a consume step processes and the messages it dispatches.
Consuming == consumed' = consumed + 1
ConsumedFrame == frames[consumed + 1]
NewMessages == SubSeq(sink', Len(sink) + 1, Len(sink'))

\* The four bytes the frame c holds at payload offset off.
FrameWord(c, off) == SubSeq(c, HDR_SIZE + off + 1, HDR_SIZE + off + 4)

\* Bit n of the status word of the bottom-track frame c.
StatusBit(c, n) == (U32(FrameWord(c, OFF_STATUS)) \div Pow2(n)) % 2

\* c is a bottom-track frame that holds all the words processBottomTrack reads.
FullBottomTrack(c) == c[3] = TYPE_BT /\ Len(c) >= HDR_SIZE + OFF_VZ + 4

\* c is a bottom-track frame that holds a status word.
HasStatus(c) == c[3] = TYPE_BT /\ Len(c) >= HDR_SIZE + OFF_STATUS + 4

\* C21: for a bottom-track frame a GroundVelocity is dispatched if and only if
\* bits 12, 13 and 14 of the frame's status word are all set.
C21_VelocityIffValid ==
  [][(Consuming /\ HasStatus(ConsumedFrame))
       => ((\E k \in 1..Len(NewMessages) : NewMessages[k].msg = "GroundVelocity")
             <=> (/\ StatusBit(ConsumedFrame, 12) = 1
                  /\ StatusBit(ConsumedFrame, 13) = 1
                  /\ StatusBit(ConsumedFrame, 14) = 1))]_vars

\* C21 witness: a frame with bits 13 and 14 set and bit 12 clear was consumed
\* and only pressure and temperature were dispatched.
C21_Witness ==
  /\ consumed = 1
  /\ FullBottomTrack(frames[1])
  /\ StatusBit(frames[1], 12) = 0
  /\ StatusBit(frames[1], 13) = 1
  /\ StatusBit(frames[1], 14) = 1
  /\ Len(sink) = 2
  /\ sink[1].msg = "Pressure"

\* The decoder is in case MSTA_SEEK_CACHED_HDR and no byte of the cache at the
\* offsets 1 .. m_cached - 1 is the sync byte.
RescanFindsNothing ==
  /\ pc \in {"seek_cached_hdr", "seek_cached_end"}
  /\ m_state = MSTA_SEEK_CACHED_HDR
  /\ SyncAt(m_cache, 1) = {}

\* C22: in SeekCachedHeader with no sync byte in the cache at the offsets
\* 1 .. cached_len - 1 the decoder returns to SeekHeader without moving the
\* position in the read buffer, the next sync byte is sought from that
\* position, and a valid frame that follows in the input is emitted.
C22_RescanSkipsNoInput ==
  /\ [][RescanFindsNothing
          => /\ pos' = pos
             /\ m_buffer' = m_buffer
             /\ frames' = frames
             /\ (pc = "seek_cached_end" => m_state' = MSTA_SEEK_HDR /\ pc' = "while")]_vars
  /\ [][(pc = "seek_hdr" /\ SyncAt(m_buffer, pos) # {})
          => (pos' = Least(SyncAt(m_buffer, pos)) /\ m_cache' = <<>>)]_vars
  /\ []((input.kind = "corrupt" /\ SyncAt(input.first, 1) = {} /\ Delivered)
          => frames = <<input.second>>)

\* C22 witness: the rescan of a changed frame found no sync byte, the decoder
\* is back in SeekHeader and bytes of the read are still to be scanned.
C22_Witness ==
  /\ input.kind = "corrupt"
  /\ m_cache = input.first
  /\ SyncAt(m_cache, 1) = {}
  /\ m_state = MSTA_SEEK_HDR
  /\ pc = "while"
  /\ pos < rv
  /\ pos = Len(input.first)

\* C23: in text mode the line accumulator never holds more than 4096 bytes,
\* and the append of a read leaves in it the most recent bytes of the old
\* accumulator followed by the read: all of them, or the last 4096.
C23_LineBounded ==
  /\ [](Len(m_line) <= c_read_buffer_size)
  /\ [][(pc = "branch" /\ m_state < MSTA_SEEK_HDR)
          => LET l == m_line \o m_buffer
             IN /\ Len(m_line') = Min(Len(l), c_read_buffer_size)
                /\ \A k \in 1..Len(m_line') :
                     m_line'[k] = l[Len(l) - Len(m_line') + k]]_vars

\* C23 witness: an append made the accumulator longer than 4096 bytes; it
\* holds 4096 bytes, the last of them the login prompt just read.
C23_Witness ==
  /\ input.kind = "flood"
  /\ pc = "text"
  /\ Len(input.first) + Len(m_buffer) > c_read_buffer_size
  /\ Len(m_line) = c_read_buffer_size
  /\ Drop(m_line, c_read_buffer_size - Len(STR_USERNAME)) = STR_USERNAME

\* A step of the foreground thread: of reconfigure() or of the stop request.
ForegroundStep == fg' # fg \/ stopping' # stopping

\* C25: a step of reconfigure() or of any other foreground operation leaves
\* the line accumulator, the frame cache with its count of cached bytes, the
\* read buffer and the reader's position in read() unchanged; reconfigure()
\* changes only m_state, m_conf_line, m_param and what is written to the
\* device.
C25_ForegroundLeavesScratch ==
  [][ForegroundStep
       => /\ m_line' = m_line
          /\ m_cache' = m_cache
          /\ m_cached' = m_cached
          /\ m_buffer' = m_buffer
          /\ <<pos, i, pc>>' = <<pos, i, pc>>
          /\ <<frames, events>>' = <<frames, events>>
          /\ (m_state' # m_state => m_state' = MSTA_CONF)
          /\ (m_conf_line' # m_conf_line => m_conf_line' = 0)
          /\ (m_param' # m_param => m_param' = arg)]_vars

\* C25 witness: reconfigure() has returned while the reader holds part of a
\* frame in the cache, which is as it was.
C25_Witness ==
  /\ nreconf > 0
  /\ fg = "idle"
  /\ m_param = arg
  /\ m_conf_line = 0
  /\ m_state = MSTA_CONF
  /\ m_cache # <<>>
  /\ pc \in {"read", "run"}

\* C27: after a header validation failure with the sync byte of a valid
\* frame at an offset 1..9 of the 10 cached bytes, that frame is emitted once
\* all its bytes have arrived.
C27_FrameAfterBadHeaderEmitted ==
  (input.kind = "badhdr" /\ Delivered) => frames = <<input.second>>

\* The same for frames with at least one payload byte.
C27_NonEmptyFrameAfterBadHeaderEmitted ==
  (input.kind = "badhdr" /\ Len(input.second) > HDR_SIZE /\ Delivered)
    => frames = <<input.second>>

\* The rescan after a failed header check keeps the bytes of the cache from
\* its first sync byte on, fewer than 10, and goes back to CacheHeader.
C27_RescanKeepsTail ==
  [][(input.kind = "badhdr" /\ pc = "seek_cached_hdr" /\ m_cached = HDR_SIZE
        /\ SyncAt(m_cache, 1) # {})
       => /\ m_cache' = Drop(m_cache, Least(SyncAt(m_cache, 1)))
          /\ m_cached' < HDR_SIZE
          /\ m_state' = MSTA_CACHE_HDR
          /\ pos' = pos]_vars

\* The commands of conf() in the order of its cases 0 .. 4.
ConfCommands == <<"MC\r\n", FMT_SETDVL, FMT_SETBT, FMT_SETCURPROF, "START\r\n">>

\* The writes of conf() made after the last write of the control sequence,
\* which auth() and reconfigure() make when they set m_conf_line to 0.
RECURSIVE SinceReset(_)
SinceReset(ws) ==
  IF ws = <<>> \/ ws[Len(ws)].str = c_control_seq THEN <<>>
  ELSE IF \/ ws[Len(ws)].str = "GETERROR\r\n"
          \/ \E k \in 1..Len(ConfCommands) : ws[Len(ws)].str = ConfCommands[k]
       THEN Append(SinceReset(Take(ws, Len(ws) - 1)), ws[Len(ws)])
       ELSE SinceReset(Take(ws, Len(ws) - 1))

\* The k-th command written since the last reset is the k-th of the list; the
\* only other write there is a GETERROR, after which nothing is written.
CommandsInOrder(ws) ==
  \A k \in 1..Len(ws) :
    \/ k <= Len(ConfCommands) /\ ws[k].str = ConfCommands[k]
    \/ k = Len(ws) /\ ws[k].str = "GETERROR\r\n"

\* The commands of conf() are written in their order once a handshake has
\* begun.
C28_CommandsInOrder ==
  (\E k \in 1..Len(written) : written[k].str = c_control_seq)
    => CommandsInOrder(SinceReset(written))

\* C28: the commands written in Configuring follow the order menu command,
\* SETDVL, SETBT, SETCURPROF, START, none skipped or repeated, and the state
\* moves from Configuring to SeekHeader only in conf(), on an "OK\r\n" read
\* after all five have been written.
C28_HandshakeOrder ==
  /\ [](C28_CommandsInOrder)
  /\ [][(m_state = MSTA_CONF /\ m_state' = MSTA_SEEK_HDR)
          => /\ pc = "conf_locked"
             /\ Contains(m_line, STR_OK)
             /\ Len(SinceReset(written)) = Len(ConfCommands)
             /\ written' = written]_vars

\* The arguments of the last write of the format fmt in ws (none: <<>>).
RECURSIVE LastArgs(_, _)
LastArgs(ws, fmt) ==
  IF ws = <<>> THEN <<>>
  ELSE IF ws[Len(ws)].str = fmt THEN ws[Len(ws)].args
       ELSE LastArgs(Take(ws, Len(ws) - 1), fmt)

\* The last SETDVL, SETBT and SETCURPROF written were formatted from param.
FormattedFrom(ws, param) ==
  \A n \in 1..3 : LastArgs(ws, ConfCommands[n + 1]) = ConfWrite(n, param)[1].args

\* C29: whenever the protocol state is a binary-mode state, the last SETDVL,
\* SETBT and SETCURPROF written were formatted from the stored parameters.
C29_BinaryModeHasCurrentParams ==
  m_state \in BinaryStates => FormattedFrom(written, m_param)

\* When conf() starts binary mode, the last SETDVL, SETBT and SETCURPROF
\* written were formatted from the stored parameters.
C29_HandshakeUsesCurrentParams ==
  [][(pc = "conf_locked" /\ m_state = MSTA_CONF /\ m_state' = MSTA_SEEK_HDR)
       => FormattedFrom(written', m_param')]_vars

\* C30: the count of cached bytes never exceeds the capacity of the frame
\* cache, whatever data length a validated header declares.
C30_CacheWithinCapacity == m_cached <= c_read_buffer_size

\* The header of the long frame passed validation.
C30_LongHeaderValid == input.kind = "long" => HeaderValid(Take(input.first, HDR_SIZE))

\* C24: a frame of type 0x16, or of any type other than 0x1B, dispatches no
\* measurement and no error, and the handler goes on with the next frame.
C24_OtherTypesSkipped ==
  [][(Consuming /\ ConsumedFrame[3] # TYPE_BT)
       => (sink' = sink /\ events' = events /\ frames' = frames)]_vars

\* C24 witness: an average record and a bottom-track record were consumed in
\* that order, and only the second produced measurements.
C24_Witness ==
  /\ consumed = 2
  /\ frames[1][3] = TYPE_AVG
  /\ FullBottomTrack(frames[2])
  /\ Len(sink) = 3
  /\ events = <<>>

\* The velocity the bottom-track frame c holds is forwarded unchanged by the
\* consume step that processes it.
ForwardedUnchanged(c) ==
  \A k \in 1..Len(NewMessages) :
    NewMessages[k].msg = "GroundVelocity"
      => /\ NewMessages[k].x = Float32(FrameWord(c, OFF_VX))
         /\ NewMessages[k].y = Float32(FrameWord(c, OFF_VY))
         /\ NewMessages[k].z = Float32(FrameWord(c, OFF_VZ))

\* The three velocity components of the frame c are finite numbers.
FiniteVelocity(c) ==
  \A off \in {OFF_VX, OFF_VY, OFF_VZ} : Float32(FrameWord(c, off)).cls = "finite"

\* C26 as stated: with the matrix of updateDCM(0, 0, 0) every velocity a frame
\* holds is forwarded unchanged.
C26_ForwardedUnchanged ==
  [][(Consuming /\ FullBottomTrack(ConsumedFrame))
       => ForwardedUnchanged(ConsumedFrame)]_vars

\* C26: updateDCM(0, 0, 0) yields the identity matrix, and a velocity with
\* three finite components decoded with it is forwarded unchanged.
C26_ZeroRotationIsIdentity ==
  /\ [](m_dcm = <<1, 0, 0, 0, 1, 0, 0, 0, 1>>)
  /\ [][(Consuming /\ FullBottomTrack(ConsumedFrame) /\ FiniteVelocity(ConsumedFrame))
          => ForwardedUnchanged(ConsumedFrame)]_vars

\* C26 witness: the velocity (1, -2, 3) was forwarded as it is in the frame.
C26_Witness ==
  /\ consumed = 1
  /\ FullBottomTrack(frames[1])
  /\ sink # <<>>
  /\ sink[1] = [msg |-> "GroundVelocity", x |-> Finite(1), y |-> Finite(0 - 2),
                z |-> Finite(3), validity |-> 7]

----------------------------------------------------------------------------
(* The prompts of the login (SpecText) *)

\* The prompt auth() acts on for the accumulated text line: the first of its
\* else-if chain that line contains (<<>> when it contains none).
MatchedPrompt(line) ==
  CASE Contains(line, STR_USERNAME) -> STR_USERNAME
    [] Contains(line, STR_PASSWORD) -> STR_PASSWORD
    [] Contains(line, STR_COMMAND_INTERFACE) -> STR_COMMAND_INTERFACE
    [] OTHER -> <<>>

\* The bytes of line that follow its last occurrence of t (the one rfind
\* reports).
AfterLast(line, t) ==
  LET at == {k \in 0..(Len(line) - Len(t)) : SubSeq(line, k + 1, k + Len(t)) = t}
      last == CHOOSE k \in at : \A j \in at : j <= k
  IN Drop(line, last + Len(t))

\* C31: on a prompt match in Init only the prefix of the accumulator up to and
\* including the matched prompt is removed; the bytes received after the
\* prompt stay in the accumulator.
C31_BytesAfterPromptKept ==
  [][(pc = "auth_locked" /\ MatchedPrompt(m_line) # <<>>)
       => m_line' = AfterLast(m_line, MatchedPrompt(m_line))]_vars

\* The same when the matched prompt ends the accumulated text.
C31_PromptAtEndRemoved ==
  [][(pc = "auth_locked" /\ MatchedPrompt(m_line) # <<>>
        /\ AfterLast(m_line, MatchedPrompt(m_line)) = <<>>)
       => m_line' = <<>>]_vars

----------------------------------------------------------------------------
(* Streams of frames (SpecDecode) *)

\* C32: for a stream of valid frames with at least one payload byte each,
\* separated by runs of bytes that are not the sync byte, delivered in any
\* split across reads from SeekHeader, exactly the frames of the stream are
\* emitted, in stream order, each with the bytes of its input frame.
C32_StreamEmittedInOrder ==
  /\ (input.kind = "stream" /\ Delivered) => frames = <<input.first, input.second>>
  /\ (input.kind = "single" /\ Len(input.first) > HDR_SIZE /\ Delivered)
       => frames = <<input.first>>
  /\ input.kind = "stream"
       => \/ frames = <<>>
          \/ frames = <<input.first>>
          \/ frames = <<input.first, input.second>>

\* C32 witness: two frames with noise before, between and after them have
\* been delivered and emitted.
C32_Witness ==
  /\ input.kind = "stream"
  /\ input.kept = 1
  /\ Head(Head(input.bursts)) # SYNC
  /\ Delivered
  /\ frames = <<input.first, input.second>>
  /\ m_state = MSTA_SEEK_HDR

\* The number of bytes of the input read so far.
BytesRead == Len(Flatten(input.bursts)) - Len(Flatten(wire))

\* The number of bytes of the input up to the last byte of its first frame.
FirstFrameEnd ==
  LET b == Flatten(input.bursts)
      f == input.first
      at == {k \in 0..(Len(b) - Len(f)) : SubSeq(b, k + 1, k + Len(f)) = f}
  IN (CHOOSE k \in at : \A j \in at : k <= j) + Len(f)

\* No read is being processed.
BetweenReads == pc \in {"run", "read"}

\* C33: a valid frame has been emitted when the processing of the read that
\* delivered its last byte ends, for every payload length including 0 and
\* whether or not bytes follow the frame in that read.
C33_EmittedInLastRead ==
  (input.kind \in {"single", "stream"} /\ BetweenReads /\ BytesRead >= FirstFrameEnd)
    => Emitted(input.first)

\* The same for frames with at least one payload byte.
C33_NonEmptyEmittedInLastRead ==
  (input.kind \in {"single", "stream"} /\ Len(input.first) > HDR_SIZE
     /\ BetweenReads /\ BytesRead >= FirstFrameEnd)
    => Emitted(input.first)

\* C34: a completed header whose byte 1 is 10 and whose checksum matches moves
\* the decoder to CacheData, with the payload length of bytes 4..5 and nothing
\* emitted, whatever its type byte; the same header with another type byte
\* (known or unknown) and its checksum is accepted too.
C34_HeaderCheckIgnoresType ==
  /\ [][(/\ pc = "cache_hdr"
         /\ Len(m_cache') = HDR_SIZE
         /\ m_cache'[2] = HDR_SIZE
         /\ LE16(m_cache'[9], m_cache'[10]) = ChecksumFormula(Take(m_cache', HDR_SIZE - 2)))
          => /\ m_state' = MSTA_CACHE_DATA
             /\ DataLen(m_cache') = m_cache'[5] + 256 * m_cache'[6]
             /\ frames' = frames]_vars
  /\ [][(pc = "cache_hdr" /\ Len(m_cache') = HDR_SIZE /\ m_state' = MSTA_CACHE_DATA)
          => \A t \in {0, TYPE_AVG, TYPE_BT, UnknownType, 255} :
               AfterHeader(DeviceHeader(t, DataLen(m_cache'),
                                        LE16(m_cache'[7], m_cache'[8])))
                 = MSTA_CACHE_DATA]_vars

\* C34 witness: the header of a frame of an unknown type has been accepted.
C34_Witness ==
  /\ input.kind = "stream"
  /\ m_state = MSTA_CACHE_DATA
  /\ m_cached = HDR_SIZE
  /\ m_cache[3] = UnknownType
  /\ m_cache = Take(input.second, HDR_SIZE)

----------------------------------------------------------------------------
(* Bottom-track records (SpecTask) *)

\* The four bytes at payload offset off lie inside the frame c.
Holds(c, off) == HDR_SIZE + off + 4 <= Len(c)

\* C35: the measurements dispatched for a bottom-track frame are built only
\* from words that lie inside the frame: a velocity from the status word and
\* the three components, a pressure and a temperature from their words.
C35_ReadsInsideFrame ==
  [][(Consuming /\ ConsumedFrame[3] = TYPE_BT)
       => \A k \in 1..Len(NewMessages) :
            CASE NewMessages[k].msg = "GroundVelocity" ->
                   /\ Holds(ConsumedFrame, OFF_STATUS)
                   /\ Holds(ConsumedFrame, OFF_VX)
                   /\ Holds(ConsumedFrame, OFF_VY)
                   /\ Holds(ConsumedFrame, OFF_VZ)
              [] NewMessages[k].msg = "Pressure" -> Holds(ConsumedFrame, OFF_PRS)
              [] OTHER -> Holds(ConsumedFrame, OFF_TEMP)]_vars

\* The same for the frames that hold all 144 payload bytes.
C35_FullFrameReadsInside ==
  [][(Consuming /\ FullBottomTrack(ConsumedFrame))
       => \A k \in 1..Len(NewMessages) :
            NewMessages[k].msg \in {"GroundVelocity", "Pressure", "Temperature"}
              /\ Holds(ConsumedFrame, OFF_VZ)]_vars

----------------------------------------------------------------------------
(* The poll of read() (Spec) *)

\* C36: a poll that times out (read() returns to run() from its first line)
\* reads nothing from the transport, writes nothing, changes neither the
\* protocol state, the step counter, the line accumulator nor the frame cache
\* and dispatches nothing; bytes are read only when the poll has found some.
C36_TimeoutChangesNothing ==
  /\ [][(pc = "read" /\ pc' = "run")
          => /\ wire = <<>>
             /\ <<wire, written, m_buffer>>' = <<wire, written, m_buffer>>
             /\ <<m_state, m_conf_line, m_param>>' = <<m_state, m_conf_line, m_param>>
             /\ <<m_line, m_cache>>' = <<m_line, m_cache>>
             /\ <<events, frames>>' = <<events, frames>>]_vars
  /\ [][(wire' # wire /\ Len(Flatten(wire')) < Len(Flatten(wire)))
          => (pc = "read" /\ wire # <<>> /\ m_buffer' # <<>>)]_vars

\* C36 witness: the reader is back in run() with nothing left to read, part of
\* a frame cached and the handshake's writes made: the polls of read() time
\* out from here on.
C36_Witness ==
  /\ pc = "run"
  /\ wire = <<>>
  /\ ~ stopping
  /\ m_state \in BinaryStates
  /\ m_cache # <<>>
  /\ written # <<>>
  /\ events = <<>>

----------------------------------------------------------------------------
(* The return to binary mode after reconfigure() (Spec) *)

\* A reconfigure() has returned and conf() has since sent its last command:
\* the handshake has put the reader back into binary mode.
Reentered ==
  /\ nreconf > 0
  /\ fg = "idle"
  /\ m_conf_line > 5

\* C37: when the handshake re-enters binary mode after a reconfigure() it does
\* so in SeekHeader, the first sync byte found there empties the cache, and
\* every frame emitted after the re-entry is made only of bytes cached after
\* the reconfigure().
C37_ReentryResetsCache ==
  /\ [][(pc = "conf_locked" /\ m_state' # m_state /\ m_state' \in BinaryStates)
          => m_state' = MSTA_SEEK_HDR]_vars
  /\ [][(pc = "seek_hdr" /\ pc' # pc /\ SyncAt(m_buffer, pos) # {})
          => (m_state' = MSTA_CACHE_HDR /\ m_cached' = 0 /\ stale' = 0)]_vars
  /\ [][(Reentered /\ frames' # frames) => stale = 0]_vars

\* C37 witness: the handshake that followed a reconfigure() has put the
\* reader into SeekHeader while the cache still holds bytes of a frame that
\* was being cached when reconfigure() was called.
C37_Witness ==
  /\ Reentered
  /\ m_state = MSTA_SEEK_HDR
  /\ stale > 0
  /\ m_cached >= stale
  /\ pc = "run"

----------------------------------------------------------------------------
(* Pressure and temperature of a bottom-track frame (SpecTask) *)

\* The number of messages of kind m in the sequence ms.
CountMsg(ms, m) == Cardinality({k \in 1..Len(ms) : ms[k].msg = m})

\* c is a bottom-track frame that holds the pressure and temperature words.
HasPressure(c) == c[3] = TYPE_BT /\ Len(c) >= HDR_SIZE + OFF_PRS + 4

\* C38: for every bottom-track frame consumed exactly one Pressure and exactly
\* one Temperature are dispatched, Pressure first and Temperature last,
\* whatever the validity bits; a GroundVelocity, when there is one, comes
\* before both; for a frame that holds the two words the Pressure is the
\* frame's float times 1000 and the Temperature is the frame's float.
C38_PressureAndTemperature ==
  [][(Consuming /\ ConsumedFrame[3] = TYPE_BT)
       => /\ CountMsg(NewMessages, "Pressure") = 1
          /\ CountMsg(NewMessages, "Temperature") = 1
          /\ Len(NewMessages) = 2 + CountMsg(NewMessages, "GroundVelocity")
          /\ CountMsg(NewMessages, "GroundVelocity") <= 1
          /\ NewMessages[Len(NewMessages) - 1].msg = "Pressure"
          /\ NewMessages[Len(NewMessages)].msg = "Temperature"
          /\ HasPressure(ConsumedFrame)
               => /\ NewMessages[Len(NewMessages) - 1].value
                       = FMul(Float32(FrameWord(ConsumedFrame, OFF_PRS)),
                              Finite(1000))
                  /\ NewMessages[Len(NewMessages)].value
                       = Float32(FrameWord(ConsumedFrame, OFF_TEMP))]_vars

\* C38 witness: a frame with the three validity bits set, pressure 3.0 and
\* temperature 1.0 was consumed: the velocity, then the pressure 3000 and the
\* temperature 1 were dispatched.
C38_Witness ==
  /\ consumed = 1
  /\ FullBottomTrack(frames[1])
  /\ VelocityValid(U32(FrameWord(frames[1], OFF_STATUS)))
  /\ FrameWord(frames[1], OFF_PRS) = F32_3
  /\ FrameWord(frames[1], OFF_TEMP) = F32_1
  /\ Len(sink) = 3
  /\ sink[1].msg = "GroundVelocity"
  /\ sink[2] = [msg |-> "Pressure", value |-> Finite(3000)]
  /\ sink[3] = [msg |-> "Temperature", value |-> Finite(1)]

----------------------------------------------------------------------------
(* Task::onResourceInitialization (SpecInit) *)

\* C39: the entity state is set to normal only by an initialization whose
\* getState() returned a binary-mode state (>= MSTA_SEEK_HDR); an
\* initialization that leaves its loop on a stop request or on the timeout
\* without that observation throws "failed to setup device" and leaves the
\* entity state as it was.
C39_ActiveOnlyAfterBinaryMode ==
  /\ [][(ok' /\ ~ ok) => (tpc = "wait" /\ m_state >= MSTA_SEEK_HDR)]_vars
  /\ [][entity_state' # entity_state
          => (ok /\ entity_state' = ESTA_NORMAL)]_vars
  /\ [][(tpc = "after" /\ tpc' # tpc /\ ~ ok)
          => (thrown' = FAILED_SETUP /\ entity_state' = entity_state)]_vars
  /\ [](thrown # "" => entity_state = ESTA_BOOT)
  /\ [](tpc = "done" => (ok /\ entity_state = ESTA_NORMAL))

\* C39 witness: the loop was left without a binary-mode state having been
\* observed while the reader was still in the handshake; the initialization
\* failed and the entity state is not set.
C39_Witness ==
  /\ tpc = "thrown"
  /\ thrown = FAILED_SETUP
  /\ ~ ok
  /\ entity_state = ESTA_BOOT
  /\ m_state = MSTA_CONF

\* The initialization observed binary mode and set the entity state.
C39_WitnessActive ==
  /\ tpc = "done"
  /\ ok
  /\ entity_state = ESTA_NORMAL

----------------------------------------------------------------------------
(* Termination of the decode loop of read() (SpecDecode) *)

\* The cases of the switch that are one step of the model.
SingleCases == {"seek_hdr", "cache_hdr", "cache_data"}

\* A step of the reader that ends an iteration of while (pos < rv) in one of
\* the cases seek, cache header, cache data.
EndsSingleCase == pc \in SingleCases /\ pc' = "while"

\* A variant of the iterations that consume nothing: it is a natural number
\* and every such iteration makes it smaller.
Rank(state, cached) ==
  CASE state = MSTA_CACHE_HDR /\ cached = 0 -> 0
    [] state = MSTA_SEEK_HDR -> 1
    [] state = MSTA_SEEK_CACHED_HDR -> 3 * cached + 2
    [] state = MSTA_CACHE_DATA -> 3 * cached + 3
    [] OTHER -> 3 * cached + 4

\* C40 as stated: every iteration of the decode loop consumes at least one
\* byte of the read, or moves the state from SeekCachedHeader to CacheHeader
\* or SeekHeader, or from a completed CacheHeader to CacheData or
\* SeekCachedHeader.
C40_IterationConsumesOrListedMove ==
  /\ [][EndsSingleCase
          => \/ pos' > pos
             \/ /\ pc = "cache_hdr"
                /\ m_cached' = HDR_SIZE
                /\ m_state' \in {MSTA_CACHE_DATA, MSTA_SEEK_CACHED_HDR}]_vars
  /\ [][(pc = "seek_cached_end" /\ pc' = "while")
          => m_state' \in {MSTA_CACHE_HDR, MSTA_SEEK_HDR}]_vars

\* C40 amended: with no reconfigure() the switch always enters one of its
\* four cases, and every iteration of the decode loop either consumes at
\* least one byte of the read or makes one of these moves without consuming:
\* SeekHeader to CacheHeader on a sync byte at the current position, with
\* the cache emptied; SeekCachedHeader to CacheHeader with fewer cached bytes
\* or to SeekHeader; a completed CacheHeader to CacheData or SeekCachedHeader;
\* a CacheData of declared length 0 to SeekHeader or SeekCachedHeader.  Every
\* iteration that consumes nothing lowers Rank, so each read() terminates.
C40_ReadTerminates ==
  /\ [][(pc = "switch" /\ pc' # pc)
          => pc' \in SingleCases \cup {"seek_cached_hdr"}]_vars
  /\ [][EndsSingleCase
          => \/ pos' > pos /\ pos' <= rv
             \/ /\ pos' = pos
                /\ Rank(m_state', m_cached') < Rank(m_state, m_cached)
                /\ \/ /\ pc = "seek_hdr"
                      /\ m_buffer[pos + 1] = SYNC
                      /\ m_state' = MSTA_CACHE_HDR
                      /\ m_cached' = 0
                   \/ /\ pc = "cache_hdr"
                      /\ m_cached' = HDR_SIZE
                      /\ m_state' \in {MSTA_CACHE_DATA, MSTA_SEEK_CACHED_HDR}
                   \/ /\ pc = "cache_data"
                      /\ DataLen(m_cache) = 0
                      /\ m_state' \in {MSTA_SEEK_HDR, MSTA_SEEK_CACHED_HDR}]_vars
  /\ [][(pc = "seek_cached_hdr" /\ pc' # pc)
          => /\ pos' = pos
             /\ pc' = "seek_cached_end"
             /\ \/ m_state' = MSTA_CACHE_HDR /\ m_cached' < m_cached
                \/ /\ m_state' = MSTA_SEEK_CACHED_HDR
                   /\ m_cache' = m_cache
                   /\ i' = m_cached]_vars
  /\ [][(pc = "seek_cached_end" /\ pc' # pc)
          => /\ pos' = pos
             /\ pc' = "while"
             /\ m_cache' = m_cache
             /\ IF m_state = MSTA_SEEK_CACHED_HDR
                THEN /\ m_state' = MSTA_SEEK_HDR
                     /\ Rank(m_state', m_cached') < Rank(m_state, m_cached)
                ELSE m_state = MSTA_CACHE_HDR /\ m_state' = m_state]_vars
  /\ [][(pc = "seek_cached_hdr" /\ pc' # pc /\ m_state' = MSTA_CACHE_HDR)
          => Rank(m_state', m_cached') < Rank(m_state, m_cached)]_vars
  /\ [][(pc = "while" /\ pc' # pc)
          => (pc' = "switch" <=> pos < rv)]_vars

\* C40 witness: the first iteration of a read found the sync byte at the
\* current position: the state moved from SeekHeader to CacheHeader and no
\* byte was consumed.
C40_Witness ==
  /\ pc = "while"
  /\ m_state = MSTA_CACHE_HDR
  /\ m_cached = 0
  /\ pos = 0
  /\ rv > 0
  /\ m_buffer[1] = SYNC

====
